---- MODULE Spec2Model ----
(***************************************************************************)
(* Overseer: the watcher primitive (database/watcher.rs), the in-memory    *)
(* store with its subscription index (database/database.rs and             *)
(* database/memory.rs) and the per-connection read loop and subscriber     *)
(* tasks of the server (net/driver.rs).                                    *)
(*                                                                         *)
(* The server runs on one cooperative executor: a task runs from one       *)
(* suspension point to the next without interleaving.  A store mutation    *)
(* is therefore modelled as a run of micro-steps (write, deposits,         *)
(* signals, response) during which no other task is scheduled (op # Idle). *)
(***************************************************************************)
EXTENDS Integers, Sequences, FiniteSets, TLC

\* ---------------------------------------------------------------- bounds
\* Requests decoded by the read loops plus direct store calls.
MaxReq == 3
\* Watcher pairs created by subscribe.
MaxWatch == 2

Keys == {"k1"}
Clients == {"A", "B"}
Values == {"v1", "v2"}
NULL == "null"
Behaviours == {"Ordered", "Eager"}
Activities == {"Kickback", "Lazy"}

VARIABLES
    store,        \* the store the server is built on: "Database" or "MemoryDatabase"
    records,      \* Database.records: a map from the bound keys to values
    index,        \* Database.watchers: entries (key, client, producer handle)
    watchers,     \* the watcher pairs ever created; a handle is an index here
    ctx,          \* ClientContext.watches of every connection
    queue,        \* per client, the packets enqueued on its write mailbox
    op,           \* the store mutation in progress, or Idle
    nReq,         \* requests handled so far
    mutSeq,       \* number of mutations the store has performed
    ver,          \* per key, the number of the last mutation written to records
    hist,         \* per key, the values of the mutations performed, in order
    released,     \* per (client, key): mutSeq at the client's Release, -1 if none since Watch
    lastCall,     \* the last delete/release call of the store and what it returned
    socket,       \* per client, the packets its write pump has written to the socket
    closedAt      \* per client, mutSeq when its read loop ended; -1 while it runs

\* The connection state beside the mailbox: the socket's outbound side and the
\* end of the read loop.
conn == <<socket, closedAt>>

\* The client library (overseer-client): one Client, the task that calls its
\* operations, and one background read task per connection it dialed.
VARIABLES
    counter,      \* Inner.counter
    write,        \* Inner.write: 0 for None, else the link whose write half it holds
    channels,     \* Inner.channels: the packet ids with a parked responder
    lives,        \* the LiveValues created by subscribe
    watched,      \* Inner.watched: per key, the LiveValue (index in lives), 0 if none
    signal,       \* Inner.signal as the caller sees it: "none", "waiting", "notified"
    caller,       \* the calling task: its position and the operation in progress
    links,        \* the TCP connections dialed, each with its background read task
    results,      \* what the caller's operations returned, in order
    nOps,         \* operations the caller has started
    nPush         \* mutations performed on the server by other clients

cli == <<counter, write, channels, lives, watched, signal, caller, links, results,
         nOps, nPush>>

\* The paged file of the store (database/store/file.rs): the file on disk, the
\* PagedFile opened on it and the Page handles the program holds.
VARIABLES
    file,         \* the bytes on disk: length, bytes 0 and 5 of the header, the pages
    paged,        \* the PagedFile: file_size, is_initialized, free_list
    handles,      \* the Page values handed out so far; a handle is an index here
    flast,        \* the last call on the paged file and what it returned
    fghost        \* pages appended so far, the pages freed and not reused since, and
                  \* the pages that get_next gave a successor since they were formatted

pgf == <<file, paged, handles, flast, fghost>>

\* The packet codec (network/decoder.rs) between one writer and one reader.
VARIABLES
    packet,       \* the Packet handed to write_packet
    stream,       \* the bytes the reader has in front of it
    sent,         \* the bytes write_packet produced and the bytes written after them
    decoded       \* what read_packet returned

codec == <<packet, stream, sent, decoded>>

\* The leaf page (database/store/paging/leaf_page.rs) inside one transaction.
VARIABLES
    leaf,         \* the body of the page in the Transact
    llast,        \* the last call on the leaf page and what it returned
    lghost        \* the records written with success, and whether one was deleted

lpg == <<leaf, llast, lghost>>

\* The parts that are checked on their own.
units == <<pgf, codec, lpg>>

vars == <<store, records, index, watchers, ctx, queue, op, nReq, mutSeq, ver,
          hist, released, lastCall, conn, cli, units>>

\* Everything but the paged file.
notPaged == <<store, records, index, watchers, ctx, queue, op, nReq, mutSeq, ver,
              hist, released, lastCall, conn, cli, codec, lpg>>

\* Everything but the codec.
notCodec == <<store, records, index, watchers, ctx, queue, op, nReq, mutSeq, ver,
              hist, released, lastCall, conn, cli, pgf, lpg>>

\* Everything but the leaf page.
notLeaf == <<store, records, index, watchers, ctx, queue, op, nReq, mutSeq, ver,
             hist, released, lastCall, conn, cli, pgf, codec>>

\* ------------------------------------------------------------- sequences
Last(s) == s[Len(s)]

IsPrefix(s, t) == Len(s) <= Len(t) /\ \A i \in 1..Len(s) : s[i] = t[i]

Vals(s) == [i \in 1..Len(s) |-> s[i].v]

\* ------------------------------------------------------------ the watcher
\* A deposit: the value (NULL for None) and the number of the mutation that
\* produced it (0 for a kickback or a kill).
Entry(v, m) == [v |-> v, m |-> m]

\* Watcher::new.  Beside the fields of WatcherInner (hold, ready, wakeup,
\* killed) a watcher carries the position of its subscriber task (pc) and
\* history: what wait() returned (seen), how many mutations of the key
\* preceded the subscription (since), whether a wake happened since the last
\* return of wait() (fresh), the last value woken (last), the kickback (kick).
NewWatcher(k, c, beh, act, since) ==
    [key |-> k, client |-> c, mode |-> beh, activity |-> act,
     hold |-> <<>>, ready |-> FALSE, wakeup |-> FALSE, killed |-> FALSE,
     pc |-> "ready", seen |-> <<>>, since |-> since, fresh |-> FALSE,
     last |-> NULL, kick |-> NULL]

\* Watcher<WatchServer>::wake_without_notify: Ordered pushes back, Eager
\* overwrites the single slot (a None leaves the slot empty).
WakeWithoutNotify(w, e) ==
    [w EXCEPT !.hold = IF w.mode = "Ordered" THEN Append(w.hold, e)
                       ELSE IF e.v = NULL THEN <<>> ELSE <<e>>,
              !.fresh = TRUE,
              !.last = e.v]

\* WatcherInner::wake: set ready, take the registered waker and wake it.
InnerWake(w) ==
    [w EXCEPT !.ready = TRUE,
              !.wakeup = FALSE,
              !.pc = IF w.wakeup THEN "woken" ELSE w.pc]

\* Watcher<WatchServer>::wake
Wake(w, e) == InnerWake(WakeWithoutNotify(w, e))

\* Mutant of Kill: killed is set but the consumer is not woken.
KillSilent(w) == [w EXCEPT !.killed = TRUE]

\* Watcher<WatchServer>::kill
Kill(w) == Wake([w EXCEPT !.killed = TRUE], Entry(NULL, 0))

\* pop_front()? / take(): the front deposit, or None when nothing is held.
Front(w) == IF w.hold = <<>> THEN Entry(NULL, 0) ELSE Head(w.hold)

PopFront(w) == IF w.hold = <<>> THEN <<>> ELSE Tail(w.hold)

\* Watcher<WatchClient>::force_recv
ForceRecv(w) == Front(w).v

\* Watcher<WatchClient>::wait, from its call or from the resumption of the
\* inner future: "return" with a value, or "pending" (the waker is registered).
WaitOutcome(w) ==
    IF w.pc = "ready" /\ w.hold # <<>> THEN "return"
    ELSE IF w.ready THEN "return"
    ELSE "pending"

\* The watcher after wait() returned (the fast path leaves ready untouched,
\* the poll clears it).
AfterReturn(w) ==
    [w EXCEPT !.hold = PopFront(w),
              !.ready = IF w.pc = "ready" /\ w.hold # <<>> THEN w.ready ELSE FALSE]

\* ------------------------------------------------------------- the store
\* records is a set of (key, value) bindings, index a set of (key, client,
\* producer) entries: the maps of the store, an insert replacing the entry
\* with the same key.
Bound(recs, k) == \E r \in recs : r.key = k

\* Database::get
Get(recs, k) == IF Bound(recs, k) THEN (CHOOSE r \in recs : r.key = k).val ELSE NULL

\* Database::len
DbLen(recs) == Cardinality(recs)

\* Mutant of RecordsInsert: the binding is added beside the key's old one.
RecordsInsertGrow(recs, k, v) == recs \cup {[key |-> k, val |-> v]}

\* records.insert(key, Record { value })
RecordsInsert(recs, k, v) == {r \in recs : r.key # k} \cup {[key |-> k, val |-> v]}

\* Mutant of RecordsRemove: the binding stays in the map.
RecordsRemoveKeep(recs, k) == recs

\* records.remove(key)
RecordsRemove(recs, k) == {r \in recs : r.key # k}

\* Database::delete's result: false on an empty store, else whether the key was removed.
DeleteResult(recs, k) == DbLen(recs) # 0 /\ Bound(recs, k)

\* Mutant of IndexInsert: a second subscribe of a pair is rejected.
IndexInsertReject(idx, k, c, w) ==
    IF \E e \in idx : e.key = k /\ e.client = c THEN idx
    ELSE idx \cup {[key |-> k, client |-> c, w |-> w]}

\* Mutant of IndexInsert: the entry is added without replacing the pair's old one.
IndexInsertKeepBoth(idx, k, c, w) == idx \cup {[key |-> k, client |-> c, w |-> w]}

\* watchers[key].insert(client_id, server) in subscribe
IndexInsert(idx, k, c, w) ==
    {e \in idx : ~(e.key = k /\ e.client = c)} \cup {[key |-> k, client |-> c, w |-> w]}

\* Mutant of ReleaseLookup: the comparison of the client id is inverted.
ReleaseLookupOther(idx, k, c) == {e \in idx : e.key = k /\ e.client # c}

\* watchers[key].remove(&id) in release: the entries it finds (and removes).
ReleaseLookup(idx, k, c) == {e \in idx : e.key = k /\ e.client = c}

\* watchers.get(key): the producers a notify of k reaches.
Subscribers(idx, k) == {e.w : e \in {x \in idx : x.key = k}}

InIndex(w) == \E e \in index : e.w = w

\* ctx.watches.insert(key, consumer) in the read loop
CtxInsert(cx, c, k, w) ==
    {e \in cx : ~(e.key = k /\ e.client = c)} \cup {[key |-> k, client |-> c, w |-> w]}

CtxLookup(cx, c, k) == {e \in cx : e.key = k /\ e.client = c}

Idle == [kind |-> "idle", client |-> "A", key |-> "k1", val |-> NULL, m |-> 0,
         pid |-> 0, result |-> FALSE, steps |-> <<>>, started |-> FALSE,
         todo |-> {}, dep |-> <<>>, sig |-> {}, subs |-> {}]

\* Mutant of InsertSteps: notify before records is written.
InsertStepsNotifyFirst == <<"notify", "write", "respond">>

\* Database::insert: write records, then notify; the read loop then responds.
InsertSteps == <<"write", "notify", "respond">>

\* Mutant of DeleteSteps: notify whether or not a binding was removed.
DeleteStepsAlwaysNotify(removed) == <<"notify", "respond">>

\* Database::delete: records.remove happened; notify only if it removed a binding.
DeleteSteps(removed) == IF removed THEN <<"notify", "respond">> ELSE <<"respond">>

\* The order of notify: MemoryDatabase::notify deposits in every watcher and
\* then signals them in the same order (notify_coordinated); Database::notify
\* calls wake (deposit, signal) on one watcher after the other.
CanDeposit(st, o, w) == w \in o.todo /\ (st = "Database" => o.dep = <<>>)

CanSignal(st, o) == o.dep # <<>> /\ (st = "MemoryDatabase" => o.todo = {})

\* ---------------------------------------------------------------- packets
\* Packet::vreturn, Packet::get, Packet::notify.  m and relAt are history:
\* the mutation a Notify reports, and the mutation count at the client's
\* Release of the key if it has released it (-1 otherwise).
Return(pid, k, v) == [kind |-> "Return", pid |-> pid, key |-> k, val |-> v, m |-> 0, relAt |-> -1]

GetAck(pid, k) == [kind |-> "Get", pid |-> pid, key |-> k, val |-> NULL, m |-> 0, relAt |-> -1]

Notify(k, v, m, relAt) == [kind |-> "Notify", pid |-> 0, key |-> k, val |-> v, m |-> m, relAt |-> relAt]

\* Mutant of Send: the packet is enqueued twice.
SendTwice(q, c, p) == [q EXCEPT ![c] = Append(Append(q[c], p), p)]

\* DriverInternal::send
Send(q, c, p) == [q EXCEPT ![c] = Append(q[c], p)]

NoCall == [n |-> 0, call |-> "none", key |-> "k1", client |-> "A", result |-> FALSE, was |-> FALSE]

\* The state after construction (Database::new, MemoryDatabase::new) of a
\* server built on the store st, with its connections accepted.
Start(st) ==
    /\ store = st
    /\ records = {}
    /\ index = {}
    /\ watchers = <<>>
    /\ ctx = {}
    /\ queue = [c \in Clients |-> <<>>]
    /\ op = Idle
    /\ nReq = 0
    /\ mutSeq = 0
    /\ ver = [k \in Keys |-> 0]
    /\ hist = [k \in Keys |-> <<>>]
    /\ released = [c \in Clients, k \in Keys |-> -1]
    /\ lastCall = NoCall
    /\ socket = [c \in Clients |-> <<>>]
    /\ closedAt = [c \in Clients |-> -1]

\* A packet id of the client: the u32 as its two 16-bit halves, high half first.
U16 == 65536

\* The id 0, which the server gives to the packets it pushes.
PushId == <<0, 0>>

\* The packet slot of a task that holds no packet.
NoPacket == [kind |-> "none", pid |-> PushId, key |-> "k1", val |-> NULL, m |-> 0, relAt |-> -1]

\* The calling task between two operations.
IdleCaller == [pc |-> "idle", kind |-> "none", key |-> "k1", val |-> NULL, id |-> PushId,
               inbox |-> NoPacket, made |-> 0, live |-> 0]

\* Client::new: the counter starts at c0 (1 in the code; a later value stands
\* for a client that has issued c0 - 1 requests), no socket, no responder.
ClientNew(c0) ==
    /\ counter = c0
    /\ write = 0
    /\ channels = {}
    /\ lives = <<>>
    /\ watched = [k \in Keys |-> 0]
    /\ signal = "none"
    /\ caller = IdleCaller
    /\ links = <<>>
    /\ results = <<>>
    /\ nOps = 0
    /\ nPush = 0

\* A file that does not exist yet or has length 0.
EmptyFile == [len |-> 0, b0 |-> 0, b5 |-> 0, pages |-> <<>>]

\* No call on the paged file yet.
NoFileCall ==
    [n |-> 0, op |-> "none", after |-> "none", ok |-> TRUE, err |-> "none", h |-> 0, arg |-> 0]

\* The paged file before PagedFile::open, on the file f.
PagedNew(f) ==
    /\ file = f
    /\ paged = [open |-> FALSE, file_size |-> 0, is_initialized |-> FALSE, free_list |-> <<>>]
    /\ handles = <<>>
    /\ flast = NoFileCall
    /\ fghost = [appended |-> Len(f.pages),
                 freed |-> {i \in 1..Len(f.pages) : f.pages[i].free = 1},
                 linked |-> {}]

\* The codec before a packet is written; p is the Packet to write.
CodecNew(p) ==
    /\ packet = p
    /\ stream = <<>>
    /\ sent = [bytes |-> <<>>, then |-> <<>>]
    /\ decoded = [read |-> FALSE]

\* A Get of the empty key with PacketId::zero.
ZeroGet == [id |-> <<<<0, 0>>, <<0, 0>>>>, payload |-> [kind |-> "Get", key |-> <<>>]]

\* The leaf page of a page that new_page has just formatted.
LeafNew ==
    /\ leaf = {}
    /\ llast = [n |-> 0, op |-> "none", arg |-> 0, res |-> "Ok", stage |-> "done",
                out |-> [some |-> FALSE]]
    /\ lghost = [written |-> <<>>, deleted |-> FALSE]

\* The parts before anything is done with them.
UnitsNew == PagedNew(EmptyFile) /\ CodecNew(ZeroGet) /\ LeafNew

\* The server as driver.rs builds it, on Database.
Init == Start("Database") /\ ClientNew(<<0, 1>>) /\ UnitsNew

\* The same server on MemoryDatabase.
InitMemory == Start("MemoryDatabase") /\ ClientNew(<<0, 1>>) /\ UnitsNew

\* ------------------------------------------------------ store mutations
\* handle_client_read, Insert: the request is decoded and Database::insert starts.
HandleInsert(c, k, v) ==
    /\ op = Idle
    /\ nReq < MaxReq
    /\ nReq' = nReq + 1
    /\ mutSeq' = mutSeq + 1
    /\ op' = [Idle EXCEPT !.kind = "insert", !.client = c, !.key = k, !.val = v,
                          !.m = mutSeq + 1, !.pid = nReq + 1, !.steps = InsertSteps]
    /\ UNCHANGED <<units, cli, conn, store, records, index, watchers, ctx, queue, ver, hist, released, lastCall>>

\* Database::insert, records.insert(key, value)
OpWrite ==
    /\ op.kind = "insert"
    /\ op.steps # <<>> /\ Head(op.steps) = "write"
    /\ records' = RecordsInsert(records, op.key, op.val)
    /\ ver' = [ver EXCEPT ![op.key] = op.m]
    /\ hist' = [hist EXCEPT ![op.key] = Append(@, op.val)]
    /\ op' = [op EXCEPT !.steps = Tail(@)]
    /\ UNCHANGED <<units, cli, conn, store, index, watchers, ctx, queue, nReq, mutSeq, released, lastCall>>

\* handle_client_read, Delete: Database::delete up to records.remove.
HandleDelete(c, k) ==
    /\ op = Idle
    /\ nReq < MaxReq
    /\ nReq' = nReq + 1
    /\ LET removed == DeleteResult(records, k) IN
       /\ records' = IF removed THEN RecordsRemove(records, k) ELSE records
       /\ mutSeq' = IF removed THEN mutSeq + 1 ELSE mutSeq
       /\ ver' = IF removed THEN [ver EXCEPT ![k] = mutSeq + 1] ELSE ver
       /\ hist' = IF removed THEN [hist EXCEPT ![k] = Append(@, NULL)] ELSE hist
       /\ op' = [Idle EXCEPT !.kind = "delete", !.client = c, !.key = k,
                             !.m = mutSeq + 1, !.pid = nReq + 1, !.result = removed,
                             !.steps = DeleteSteps(removed)]
       /\ lastCall' = [n |-> nReq + 1, call |-> "delete", key |-> k, client |-> c,
                       result |-> removed, was |-> Bound(records, k)]
    /\ UNCHANGED <<units, cli, conn, store, index, watchers, ctx, queue, released>>

\* Database::notify / MemoryDatabase::notify: look the key's watchers up.
StartNotify ==
    /\ op.steps # <<>> /\ Head(op.steps) = "notify"
    /\ ~op.started
    /\ LET subs == Subscribers(index, op.key) IN
       op' = IF subs = {}
             THEN [op EXCEPT !.steps = Tail(@)]
             ELSE [op EXCEPT !.started = TRUE, !.todo = subs, !.subs = subs]
    /\ UNCHANGED <<units, cli, conn, store, records, index, watchers, ctx, queue, nReq, mutSeq, ver, hist,
                   released, lastCall>>

\* wake_without_notify on the next watcher of the iteration.
NotifyDeposit(w) ==
    /\ op.started
    /\ CanDeposit(store, op, w)
    /\ watchers' = [watchers EXCEPT ![w] = WakeWithoutNotify(@, Entry(op.val, op.m))]
    /\ op' = [op EXCEPT !.todo = @ \ {w}, !.dep = Append(@, w)]
    /\ UNCHANGED <<units, cli, conn, store, records, index, ctx, queue, nReq, mutSeq, ver, hist, released, lastCall>>

\* WatcherInner::wake on the next deposited watcher; the last one ends notify.
NotifySignal ==
    /\ op.started
    /\ CanSignal(store, op)
    /\ LET w == Head(op.dep) IN
       /\ watchers' = [watchers EXCEPT ![w] = InnerWake(@)]
       /\ op' = IF op.todo = {} /\ Len(op.dep) = 1
                THEN [op EXCEPT !.dep = <<>>, !.sig = @ \cup {w}, !.started = FALSE,
                                !.steps = Tail(@)]
                ELSE [op EXCEPT !.dep = Tail(@), !.sig = @ \cup {w}]
    /\ UNCHANGED <<units, cli, conn, store, records, index, ctx, queue, nReq, mutSeq, ver, hist, released, lastCall>>

\* handle_client_read: internal.send of the response to Insert or Delete.
Respond ==
    /\ op.steps # <<>> /\ Head(op.steps) = "respond"
    /\ queue' = Send(queue, op.client,
                     IF op.kind = "insert" THEN Return(op.pid, op.key, op.val)
                     ELSE GetAck(op.pid, op.key))
    /\ op' = Idle
    /\ UNCHANGED <<units, cli, conn, store, records, index, watchers, ctx, nReq, mutSeq, ver, hist, released, lastCall>>

\* ------------------------------------------------- the other requests
\* handle_client_read, Get
HandleGet(c, k) ==
    /\ op = Idle
    /\ nReq < MaxReq
    /\ nReq' = nReq + 1
    /\ queue' = Send(queue, c, Return(nReq + 1, k, Get(records, k)))
    /\ UNCHANGED <<units, cli, conn, store, records, index, watchers, ctx, op, mutSeq, ver, hist, released, lastCall>>

\* Database::subscribe: the producer after the kickback, if any.
Subscribed(recs, k, c, beh, act, since) ==
    IF act = "Kickback"
    THEN [Wake(NewWatcher(k, c, beh, act, since), Entry(Get(recs, k), 0))
            EXCEPT !.kick = Get(recs, k)]
    ELSE NewWatcher(k, c, beh, act, since)

\* handle_client_read, Watch: subscribe, remember the consumer in ctx.watches,
\* spawn the subscriber task (it starts at its first wait()) and acknowledge.
HandleWatch(c, k, act, beh) ==
    /\ op = Idle
    /\ nReq < MaxReq
    /\ Len(watchers) < MaxWatch
    /\ nReq' = nReq + 1
    /\ LET w == Len(watchers) + 1 IN
       /\ watchers' = Append(watchers, Subscribed(records, k, c, beh, act, Len(hist[k])))
       /\ index' = IndexInsert(index, k, c, w)
       /\ ctx' = CtxInsert(ctx, c, k, w)
    /\ released' = [released EXCEPT ![c, k] = -1]
    /\ queue' = Send(queue, c, GetAck(nReq + 1, k))
    /\ UNCHANGED <<units, cli, conn, store, records, op, mutSeq, ver, hist, lastCall>>

\* The watchers after release killed the producers it removed.
KillAll(ws, found) ==
    [w \in 1..Len(ws) |-> IF \E e \in found : e.w = w THEN Kill(ws[w]) ELSE ws[w]]

\* handle_client_read, Release: Database::release only if ctx.watches held the key.
HandleRelease(c, k) ==
    /\ op = Idle
    /\ nReq < MaxReq
    /\ nReq' = nReq + 1
    /\ LET held == CtxLookup(ctx, c, k)
           found == ReleaseLookup(index, k, c) IN
       /\ ctx' = ctx \ held
       /\ index' = IF held # {} THEN index \ found ELSE index
       /\ watchers' = IF held # {} THEN KillAll(watchers, found) ELSE watchers
       /\ lastCall' = IF held # {}
                      THEN [n |-> nReq + 1, call |-> "release", key |-> k, client |-> c,
                            result |-> found # {},
                            was |-> \E e \in index : e.key = k /\ e.client = c]
                      ELSE lastCall
    /\ released' = [released EXCEPT ![c, k] = mutSeq]
    /\ queue' = Send(queue, c, GetAck(nReq + 1, k))
    /\ UNCHANGED <<units, cli, conn, store, records, op, mutSeq, ver, hist>>

\* Database::release called on the store itself (as the store's tests call it).
DbRelease(k, c) ==
    /\ op = Idle
    /\ nReq < MaxReq
    /\ nReq' = nReq + 1
    /\ LET found == ReleaseLookup(index, k, c) IN
       /\ index' = index \ found
       /\ watchers' = KillAll(watchers, found)
       /\ lastCall' = [n |-> nReq + 1, call |-> "release", key |-> k, client |-> c,
                       result |-> found # {},
                       was |-> \E e \in index : e.key = k /\ e.client = c]
    /\ UNCHANGED <<units, cli, conn, store, records, ctx, queue, op, mutSeq, ver, hist, released>>

\* ------------------------------------------------------ subscriber tasks
\* What wait() returned, kept in the watcher's history: the value, the
\* mutation it reports, the key's version in records at that moment, whether
\* a wake preceded this return since the previous one, and the last value woken.
Observation(w, at) ==
    [v |-> Front(w).v, m |-> Front(w).m, at |-> at, fresh |-> w.fresh, last |-> w.last]

\* spawn_subscriber: one run of the task, from where it was suspended (or
\* spawned) to its next suspension.  Each wait() that returns is followed by
\* is_killed() (which ends the task) or by the send of a Notify and the next
\* wait(); a wait() that finds nothing registers the waker and suspends.
\* The result is the watcher afterwards and the Notify packets sent.
RECURSIVE RunTask(_, _, _)
RunTask(w, at, relAt) ==
    IF WaitOutcome(w) = "pending"
    THEN [w |-> [w EXCEPT !.pc = "parked", !.wakeup = TRUE], out |-> <<>>]
    ELSE LET after == [AfterReturn(w) EXCEPT !.seen = Append(@, Observation(w, at)),
                                             !.fresh = FALSE,
                                             !.pc = "ready"]
         IN  IF w.killed
             THEN [w |-> [after EXCEPT !.pc = "done"], out |-> <<>>]
             ELSE LET rest == RunTask(after, at, relAt)
                  IN  [w |-> rest.w,
                       out |-> <<Notify(w.key, Front(w).v, Front(w).m, relAt)>> \o rest.out]

SubscriberRun(w) ==
    /\ op = Idle
    /\ watchers[w].pc \in {"ready", "woken"}
    /\ LET wr == watchers[w]
           run == RunTask(wr, ver[wr.key], released[wr.client, wr.key]) IN
       /\ watchers' = [watchers EXCEPT ![w] = run.w]
       /\ queue' = [queue EXCEPT ![wr.client] = @ \o run.out]
    /\ UNCHANGED <<units, cli, conn, store, records, index, ctx, op, nReq, mutSeq, ver, hist, released, lastCall>>

\* ------------------------------------------------------- the connection
\* Mutant of Recv: the newest packet of the mailbox is received.
RecvNewest(q, n) == q[Len(q)]

\* receiver.recv() of the mailbox of which n packets were received before:
\* the oldest packet not yet received.
Recv(q, n) == q[n + 1]

\* handle_client_write: one turn of the write pump of client c, which takes a
\* packet from the mailbox and writes it to the socket.
PumpWrite(c) ==
    /\ op = Idle
    /\ Len(socket[c]) < Len(queue[c])
    /\ socket' = [socket EXCEPT ![c] = Append(@, Recv(queue[c], Len(@)))]
    /\ UNCHANGED <<units, cli, closedAt, store, records, index, watchers, ctx, queue, op, nReq, mutSeq,
                   ver, hist, released, lastCall>>

\* The clients whose read loop runs.
Open == {c \in Clients : closedAt[c] = -1}

\* handle_client_read: Packet::deserialize fails (read error or EOF) and the
\* `?` ends the read loop of client c.  Nothing else is done: the
\* subscriptions, the consumers in ctx.watches, the subscriber tasks and the
\* mailbox stay as they are.
Disconnect(c) ==
    /\ op = Idle
    /\ c \in Open
    /\ closedAt' = [closedAt EXCEPT ![c] = mutSeq]
    /\ UNCHANGED <<units, cli, socket, store, records, index, watchers, ctx, queue, op, nReq, mutSeq,
                   ver, hist, released, lastCall>>

Next ==
    \/ \E c \in Clients, k \in Keys, v \in Values : HandleInsert(c, k, v)
    \/ OpWrite
    \/ \E c \in Clients, k \in Keys : HandleDelete(c, k)
    \/ StartNotify
    \/ \E w \in 1..Len(watchers) : NotifyDeposit(w)
    \/ NotifySignal
    \/ Respond
    \/ \E c \in Clients, k \in Keys : HandleGet(c, k)
    \/ \E c \in Clients, k \in Keys, act \in Activities, beh \in Behaviours :
          HandleWatch(c, k, act, beh)
    \/ \E c \in Clients, k \in Keys : HandleRelease(c, k)
    \/ \E c \in Clients, k \in Keys : DbRelease(k, c)
    \/ \E w \in 1..Len(watchers) : SubscriberRun(w)

Spec == Init /\ [][Next]_vars

SpecMemory == InitMemory /\ [][Next]_vars

\* One connection with its write pump: client A sends every kind of request
\* and its pump writes the mailbox to the socket; the other client is silent.
PumpClients == {"A"}

NextPump ==
    \/ \E c \in PumpClients, k \in Keys, v \in Values : HandleInsert(c, k, v)
    \/ OpWrite
    \/ \E c \in PumpClients, k \in Keys : HandleDelete(c, k)
    \/ StartNotify
    \/ \E w \in 1..Len(watchers) : NotifyDeposit(w)
    \/ NotifySignal
    \/ Respond
    \/ \E c \in PumpClients, k \in Keys : HandleGet(c, k)
    \/ \E c \in PumpClients, k \in Keys, act \in Activities, beh \in Behaviours :
          HandleWatch(c, k, act, beh)
    \/ \E c \in PumpClients, k \in Keys : HandleRelease(c, k)
    \/ \E w \in 1..Len(watchers) : SubscriberRun(w)
    \/ \E c \in PumpClients : PumpWrite(c)

SpecPump == Init /\ [][NextPump]_vars

\* A connection that is lost: client A subscribes and releases while its read
\* loop runs, client B mutates the store, and A's read loop may end.
Watching == {"A"}

Mutating == {"B"}

NextClose ==
    \/ \E c \in Mutating \cap Open, k \in Keys, v \in Values : HandleInsert(c, k, v)
    \/ OpWrite
    \/ \E c \in Mutating \cap Open, k \in Keys : HandleDelete(c, k)
    \/ StartNotify
    \/ \E w \in 1..Len(watchers) : NotifyDeposit(w)
    \/ NotifySignal
    \/ Respond
    \/ \E c \in Watching \cap Open, k \in Keys, act \in Activities, beh \in Behaviours :
          HandleWatch(c, k, act, beh)
    \/ \E c \in Watching \cap Open, k \in Keys : HandleRelease(c, k)
    \/ \E w \in 1..Len(watchers) : SubscriberRun(w)
    \/ \E c \in Watching : Disconnect(c)

SpecClose == Init /\ [][NextClose]_vars

\* ------------------------------------------------------------ the client
\* Operations the calling task starts.
MaxOps == 3
\* TCP connections the client dials.
MaxLinks == 2
\* Mutations other clients perform on the server.
MaxPush == 2

\* The server's state beside records, which the client's requests change.
server == <<store, index, watchers, ctx, queue, op, nReq, mutSeq, ver, hist, released,
            lastCall, conn, units>>

\* Packet::new(PacketId::new(id, 0), payload): a request of the client.
Request(kind, id, k, v) ==
    [kind |-> kind, pid |-> id, key |-> k, val |-> v, m |-> 0, relAt |-> -1]

\* The LiveValue subscribe creates: no value, nobody waiting on its Notify.
NewLiveValue == [value |-> NULL, waiting |-> FALSE, notified |-> FALSE]

\* A connection just dialed: up and down are the packets written by the client
\* and by the server (handled and read count those consumed), backend is the
\* position of run_client_backend, pkt the packet it read, subs the keys the
\* server holds a subscription of for this connection.
NewLink == [up |-> <<>>, handled |-> 0, down |-> <<>>, read |-> 0, broken |-> FALSE,
            shut |-> FALSE, backend |-> "start", pkt |-> NoPacket, subs |-> {}]

\* What an operation returned.
Outcome(kind, k, id, rid, ok, v) ==
    [kind |-> kind, key |-> k, id |-> id, rid |-> rid, ok |-> ok, val |-> v]

\* Client::get / insert / delete / subscribe: the operation starts with connect().
Call(kind, k, v) ==
    /\ caller.pc = "idle"
    /\ nOps < MaxOps
    /\ nOps' = nOps + 1
    /\ caller' = [IdleCaller EXCEPT !.pc = "connect", !.kind = kind, !.key = k, !.val = v,
                                    !.live = caller.live]
    /\ UNCHANGED <<server, records, counter, write, channels, lives, watched, signal, links,
                   results, nPush>>

\* Client::connect, up to tokio::spawn: nothing to do when a socket is held,
\* else dial and spawn the background read task.
Connect ==
    /\ caller.pc = "connect"
    /\ IF write # 0
       THEN /\ caller' = [caller EXCEPT !.pc = "count"]
            /\ links' = links
       ELSE /\ Len(links) < MaxLinks
            /\ links' = Append(links, NewLink)
            /\ caller' = [caller EXCEPT !.pc = "dialed"]
    /\ UNCHANGED <<server, records, counter, write, channels, lives, watched, signal, results,
                   nOps, nPush>>

\* Client::connect, self.inner.signal.notified(): from here on a
\* notify_waiters() reaches the caller.
ConnectNotified ==
    /\ caller.pc = "dialed"
    /\ signal' = "waiting"
    /\ caller' = [caller EXCEPT !.pc = "connecting"]
    /\ UNCHANGED <<server, records, counter, write, channels, lives, watched, links, results,
                   nOps, nPush>>

\* Client::connect: the await on the signal returns and write takes the socket.
ConnectDone ==
    /\ caller.pc = "connecting"
    /\ signal = "notified"
    /\ signal' = "none"
    /\ write' = Len(links)
    /\ caller' = [caller EXCEPT !.pc = "count"]
    /\ UNCHANGED <<server, records, counter, channels, lives, watched, links, results, nOps,
                   nPush>>

\* Client::count: fetch_add(1) on the u32 counter leaves this value, the
\* carry out of the high half being dropped.
NextCount(c) ==
    IF c[2] + 1 < U16 THEN <<c[1], c[2] + 1>> ELSE <<(c[1] + 1) % U16, 0>>

\* The operation builds its packet with the id count() returns; subscribe first
\* creates its LiveValue and puts it in watched.
Count ==
    /\ caller.pc = "count"
    /\ counter' = NextCount(counter)
    /\ IF caller.kind = "Watch"
       THEN /\ lives' = Append(lives, NewLiveValue)
            /\ watched' = [watched EXCEPT ![caller.key] = Len(lives) + 1]
            /\ caller' = [caller EXCEPT !.pc = "send", !.id = counter, !.made = Len(lives) + 1]
       ELSE /\ lives' = lives
            /\ watched' = watched
            /\ caller' = [caller EXCEPT !.pc = "send", !.id = counter]
    /\ UNCHANGED <<server, records, write, channels, signal, links, results, nOps, nPush>>

\* Client::send up to rcv.await: the responder is parked under the packet's id
\* and the packet written.  On a broken connection the write fails (the
\* operation returns the error) or is accepted locally and lost.
ClientSend ==
    /\ caller.pc = "send"
    /\ write # 0
    /\ channels' = channels \cup {caller.id}
    /\ \/ /\ ~links[write].broken
          /\ links' = [links EXCEPT ![write].up =
                          Append(@, Request(caller.kind, caller.id, caller.key, caller.val))]
          /\ caller' = [caller EXCEPT !.pc = "recv"]
          /\ results' = results
       \/ /\ links[write].broken
          /\ links' = links
          /\ \/ /\ caller' = [IdleCaller EXCEPT !.live = caller.live]
                /\ results' = Append(results, Outcome(caller.kind, caller.key, caller.id, PushId,
                                                       FALSE, NULL))
             \/ /\ caller' = [caller EXCEPT !.pc = "recv"]
                /\ results' = results
    /\ UNCHANGED <<server, records, counter, write, lives, watched, signal, nOps, nPush>>

\* The payload the operation accepts: Return for get and insert, Get for
\* delete and subscribe; anything else is WrongResponseFromServer.
Accepts(kind, p) ==
    IF kind \in {"Get", "Insert"} THEN p.kind = "Return" ELSE p.kind = "Get"

\* Client::send, rcv.await, and the end of the operation.
Receive ==
    /\ caller.pc = "recv"
    /\ caller.inbox # NoPacket
    /\ results' = Append(results, Outcome(caller.kind, caller.key, caller.id,
                                           caller.inbox.pid, Accepts(caller.kind, caller.inbox),
                                           caller.inbox.val))
    /\ caller' = [IdleCaller EXCEPT !.live =
                     IF caller.kind = "Watch" /\ Accepts(caller.kind, caller.inbox)
                     THEN caller.made ELSE caller.live]
    /\ UNCHANGED <<server, records, counter, write, channels, lives, watched, signal, links,
                   nOps, nPush>>

\* Client::reset_connection: shut the write half down, notify the waiters of
\* the connection's kill Notify, drop the socket.  The background task takes
\* the notification only while it waits in select!; if a packet is readable
\* as well, select! may take the packet instead.  A socket is dropped only
\* while the bound MaxLinks leaves room to dial the next one.
ResetConnection ==
    /\ caller.pc = "idle"
    /\ nOps < MaxOps
    /\ write # 0 => Len(links) < MaxLinks
    /\ nOps' = nOps + 1
    /\ IF write = 0
       THEN links' = links
       ELSE \E b \in (IF links[write].backend # "select" THEN {links[write].backend}
                      ELSE IF links[write].read < Len(links[write].down)
                           THEN {"killed", "select"} ELSE {"killed"}) :
                links' = [links EXCEPT ![write].shut = TRUE, ![write].backend = b]
    /\ write' = 0
    /\ results' = Append(results, Outcome("Reset", "k1", PushId, PushId, TRUE, NULL))
    /\ UNCHANGED <<server, records, counter, channels, lives, watched, signal, caller, nPush>>

\* run_client_backend, inner.signal.notify_waiters(): wakes the caller if its
\* Notified future exists, and is lost otherwise.
BackendStart(n) ==
    /\ links[n].backend = "start"
    /\ signal' = IF signal = "waiting" THEN "notified" ELSE signal
    /\ links' = [links EXCEPT ![n].backend = "select"]
    /\ UNCHANGED <<server, records, counter, write, channels, lives, watched, caller, results,
                   nOps, nPush>>

\* run_client_backend, select!: Packet::read returns the next packet, or the
\* error of a lost connection, which ends the task.
BackendRead(n) ==
    /\ links[n].backend = "select"
    /\ IF links[n].read < Len(links[n].down)
       THEN links' = [links EXCEPT ![n].pkt = links[n].down[links[n].read + 1],
                                   ![n].read = @ + 1,
                                   ![n].backend = "handle"]
       ELSE /\ links[n].broken
            /\ links' = [links EXCEPT ![n].backend = "failed"]
    /\ UNCHANGED <<server, records, counter, write, channels, lives, watched, signal, caller,
                   results, nOps, nPush>>

\* run_client_backend, the dispatch of the packet read: id 0 is a push (a
\* Notify sets the key's LiveValue and notifies its waiters), any other id
\* takes the responder out of channels and sends it the packet.  The unwraps
\* panic on a Notify of an unwatched key, an id without responder and a
\* responder whose receiver is gone.
BackendHandle(n) ==
    /\ links[n].backend = "handle"
    /\ LET p == links[n].pkt
           to(b) == [links EXCEPT ![n].backend = b, ![n].pkt = NoPacket]
       IN  IF p.pid = PushId
           THEN /\ channels' = channels
                /\ caller' = caller
                /\ IF p.kind # "Notify"
                   THEN lives' = lives /\ links' = to("select")
                   ELSE IF watched[p.key] = 0
                        THEN lives' = lives /\ links' = to("panicked")
                        ELSE /\ lives' = [lives EXCEPT
                                             ![watched[p.key]].value = p.val,
                                             ![watched[p.key]].notified = @ \/ lives[watched[p.key]].waiting]
                             /\ links' = to("select")
           ELSE /\ lives' = lives
                /\ channels' = channels \ {p.pid}
                /\ IF p.pid \in channels /\ caller.pc = "recv" /\ caller.id = p.pid
                   THEN caller' = [caller EXCEPT !.inbox = p] /\ links' = to("select")
                   ELSE caller' = caller /\ links' = to("panicked")
    /\ UNCHANGED <<server, records, counter, write, watched, signal, results, nOps, nPush>>

\* The server's answer to a request (handle_client_read's dispatch).
Response(req, recs) ==
    IF req.kind = "Insert" THEN Return(req.pid, req.key, req.val)
    ELSE IF req.kind = "Get" THEN Return(req.pid, req.key, Get(recs, req.key))
    ELSE GetAck(req.pid, req.key)

\* The server's read loop of connection n handles the next request: the store
\* call and the response, which its write pump sends down the connection.
ServerHandle(n) ==
    /\ ~links[n].broken
    /\ links[n].handled < Len(links[n].up)
    /\ LET req == links[n].up[links[n].handled + 1] IN
       /\ records' = IF req.kind = "Insert" THEN RecordsInsert(records, req.key, req.val)
                     ELSE IF req.kind = "Delete" /\ DeleteResult(records, req.key)
                          THEN RecordsRemove(records, req.key)
                          ELSE records
       /\ links' = [links EXCEPT ![n].handled = @ + 1,
                                 ![n].down = Append(@, Response(req, records)),
                                 ![n].subs = IF req.kind = "Watch" THEN @ \cup {req.key} ELSE @]
    /\ UNCHANGED <<server, counter, write, channels, lives, watched, signal, caller, results,
                   nOps, nPush>>

\* Another client inserts v at key k, or deletes k when v is NULL: the
\* subscriber task of every connection subscribed to k sends a Notify down.
ServerPush(k, v) ==
    /\ nPush < MaxPush
    /\ nPush' = nPush + 1
    /\ v = NULL => DeleteResult(records, k)
    /\ records' = IF v = NULL THEN RecordsRemove(records, k) ELSE RecordsInsert(records, k, v)
    /\ links' = [n \in 1..Len(links) |->
                    IF k \in links[n].subs /\ ~links[n].broken
                    THEN [links[n] EXCEPT !.down = Append(@, [Notify(k, v, 0, -1) EXCEPT !.pid = PushId])]
                    ELSE links[n]]
    /\ UNCHANGED <<server, counter, write, channels, lives, watched, signal, caller, results,
                   nOps>>

\* The connection n is lost: the server stops, and the client's reads fail
\* once the packets already sent are read.
LinkLost(n) ==
    /\ ~links[n].broken
    /\ links' = [links EXCEPT ![n].broken = TRUE]
    /\ UNCHANGED <<server, records, counter, write, channels, lives, watched, signal, caller,
                   results, nOps, nPush>>

\* LiveValue::get on the LiveValue the caller's subscribe returned.
LiveGet ==
    /\ caller.pc = "idle"
    /\ caller.live # 0
    /\ nOps < MaxOps
    /\ nOps' = nOps + 1
    /\ results' = Append(results, Outcome("LiveGet", caller.key, PushId, PushId, TRUE,
                                           lives[caller.live].value))
    /\ UNCHANGED <<server, records, counter, write, channels, lives, watched, signal, caller,
                   links, nPush>>

\* LiveValue::wait_on_update, notify.notified(): the caller starts to wait.
WaitCall ==
    /\ caller.pc = "idle"
    /\ caller.live # 0
    /\ nOps < MaxOps
    /\ nOps' = nOps + 1
    /\ lives' = [lives EXCEPT ![caller.live].waiting = TRUE, ![caller.live].notified = FALSE]
    /\ caller' = [caller EXCEPT !.pc = "waiting"]
    /\ UNCHANGED <<server, records, counter, write, channels, watched, signal, links, results,
                   nPush>>

\* LiveValue::wait_on_update: the await on the Notify returns.
WaitResume ==
    /\ caller.pc = "waiting"
    /\ lives[caller.live].notified
    /\ lives' = [lives EXCEPT ![caller.live].waiting = FALSE, ![caller.live].notified = FALSE]
    /\ caller' = [caller EXCEPT !.pc = "woken"]
    /\ UNCHANGED <<server, records, counter, write, channels, watched, signal, links, results,
                   nOps, nPush>>

\* LiveValue::wait_on_update, self.get(): the value held now is returned.
WaitGet ==
    /\ caller.pc = "woken"
    /\ results' = Append(results, Outcome("Wait", caller.key, PushId, PushId, TRUE,
                                           lives[caller.live].value))
    /\ caller' = [caller EXCEPT !.pc = "idle"]
    /\ UNCHANGED <<server, records, counter, write, channels, lives, watched, signal, links,
                   nOps, nPush>>

\* The client with its requests, reset_connection and lost connections.
NextClient ==
    \/ \E k \in Keys : Call("Get", k, NULL)
    \/ \E k \in Keys, v \in Values : Call("Insert", k, v)
    \/ \E k \in Keys : Call("Delete", k, NULL)
    \/ Connect
    \/ ConnectNotified
    \/ ConnectDone
    \/ Count
    \/ ClientSend
    \/ Receive
    \/ ResetConnection
    \/ \E n \in 1..Len(links) : BackendStart(n)
    \/ \E n \in 1..Len(links) : BackendRead(n)
    \/ \E n \in 1..Len(links) : BackendHandle(n)
    \/ \E n \in 1..Len(links) : ServerHandle(n)
    \/ \E n \in 1..Len(links) : LinkLost(n)

\* The tokio scheduler runs every task that can take a step, and the server
\* answers the requests it has read; when a connection is lost and when the
\* caller starts an operation is up to the environment.
ClientFairness ==
    /\ WF_vars(Connect)
    /\ WF_vars(ConnectNotified)
    /\ WF_vars(ConnectDone)
    /\ WF_vars(Count)
    /\ WF_vars(ClientSend)
    /\ WF_vars(Receive)
    /\ \A n \in 1..MaxLinks : WF_vars(n <= Len(links) /\ BackendStart(n))
    /\ \A n \in 1..MaxLinks : WF_vars(n <= Len(links) /\ BackendRead(n))
    /\ \A n \in 1..MaxLinks : WF_vars(n <= Len(links) /\ BackendHandle(n))
    /\ \A n \in 1..MaxLinks : WF_vars(n <= Len(links) /\ ServerHandle(n))

SpecClient == Init /\ [][NextClient]_vars /\ ClientFairness

\* A client whose counter has reached the last u32 value.
InitWrap == Start("Database") /\ ClientNew(<<U16 - 1, U16 - 1>>) /\ UnitsNew

SpecWrap == InitWrap /\ [][NextClient]_vars

\* The client against a server that stays up, as in
\* test_client_connection_breakoff: no connection is lost.
NextRedial ==
    \/ \E k \in Keys : Call("Get", k, NULL)
    \/ \E k \in Keys, v \in Values : Call("Insert", k, v)
    \/ \E k \in Keys : Call("Delete", k, NULL)
    \/ Connect
    \/ ConnectNotified
    \/ ConnectDone
    \/ Count
    \/ ClientSend
    \/ Receive
    \/ ResetConnection
    \/ \E n \in 1..Len(links) : BackendStart(n)
    \/ \E n \in 1..Len(links) : BackendRead(n)
    \/ \E n \in 1..Len(links) : BackendHandle(n)
    \/ \E n \in 1..Len(links) : ServerHandle(n)

SpecRedial == Init /\ [][NextRedial]_vars /\ ClientFairness

\* The client with one subscription, its LiveValue, and other clients'
\* mutations of the key.
NextLive ==
    \/ \E k \in Keys : lives = <<>> /\ Call("Watch", k, NULL)
    \/ Connect
    \/ ConnectNotified
    \/ ConnectDone
    \/ Count
    \/ ClientSend
    \/ Receive
    \/ \E n \in 1..Len(links) : BackendStart(n)
    \/ \E n \in 1..Len(links) : BackendRead(n)
    \/ \E n \in 1..Len(links) : BackendHandle(n)
    \/ \E n \in 1..Len(links) : ServerHandle(n)
    \/ \E k \in Keys, v \in Values \cup {NULL} : ServerPush(k, v)
    \/ LiveGet
    \/ WaitCall
    \/ WaitResume
    \/ WaitGet

SpecLive == Init /\ [][NextLive]_vars

\* -------------------------------------------------------- the paged file
PAGE_SIZE == 16384
RESERVED_HEADER_SIZE == 512
MAGIC_BYTE == 131
\* Calls made on the paged file.
MaxFileOps == 7

\* A page of zero bytes: the free byte, the stored previous and next fields
\* (u32, little endian, at bytes 1..4 and in the last 4 bytes) and the body
\* between them, 0 when all its bytes are zero.
ZeroPage == [free |-> 0, prev |-> 0, next |-> 0, body |-> 0]

\* RawPageAddress::new(RESERVED_HEADER_SIZE + i * PAGE_SIZE): where page i starts.
PageAddress(i) == RESERVED_HEADER_SIZE + i * PAGE_SIZE

\* RawPageAddress::page_number
page_number(a) == IF a = 0 THEN 0 ELSE (a - RESERVED_HEADER_SIZE) \div PAGE_SIZE

\* The place in file.pages of the page that starts at address a.
Slot(a) == (a - RESERVED_HEADER_SIZE) \div PAGE_SIZE + 1

\* PagedFile::pages
pages(pf) ==
    IF ~pf.is_initialized THEN 0 ELSE (pf.file_size - RESERVED_HEADER_SIZE) \div PAGE_SIZE

\* Page::has_next
has_next(page) == page.next # 0

\* The file after size bytes were written at ptr: it grows when they end
\* behind its end.
Extended(f, ptr, size) == IF ptr + size > f.len THEN ptr + size ELSE f.len

\* format_page on the header page: 512 zero bytes at 0 (and a zero byte at 5).
FormatHeader(f) ==
    [f EXCEPT !.len = Extended(f, 0, RESERVED_HEADER_SIZE), !.b0 = 0, !.b5 = 0]

\* format_page on a page: PAGE_SIZE zero bytes at ptr (and a zero byte at ptr + 5).
FormatPage(f, ptr) ==
    [f EXCEPT !.len = Extended(f, ptr, PAGE_SIZE),
              !.pages = IF Slot(ptr) > Len(f.pages) THEN Append(f.pages, ZeroPage)
                        ELSE [f.pages EXCEPT ![Slot(ptr)] = ZeroPage]]

\* PagedFile::reserve, the size the PagedFile keeps of its file.
Reserved(pf, ptr, size) ==
    IF pages(pf) = 0 THEN pf.file_size + size
    ELSE IF (ptr - RESERVED_HEADER_SIZE) \div PAGE_SIZE >= pages(pf) THEN pf.file_size + size
    ELSE pf.file_size

\* Mutant of FreeScan: the last page is not looked at.
RECURSIVE FreeScanShort(_, _)
FreeScanShort(f, n) ==
    IF n <= 1 THEN <<>>
    ELSE IF f.pages[n - 1].free = 1 THEN Append(FreeScanShort(f, n - 1), PageAddress(n - 2))
         ELSE FreeScanShort(f, n - 1)

\* PagedFile::open, the scan of byte 0 of the first n pages.
RECURSIVE FreeScan(_, _)
FreeScan(f, n) ==
    IF n = 0 THEN <<>>
    ELSE IF f.pages[n].free = 1 THEN Append(FreeScan(f, n - 1), PageAddress(n - 1))
         ELSE FreeScan(f, n - 1)

\* load_page: the Page read from the file at ptr.
load_page(f, ptr) ==
    [start |-> ptr, size |-> PAGE_SIZE, free |-> f.pages[Slot(ptr)].free = 1,
     previous |-> f.pages[Slot(ptr)].prev * PAGE_SIZE + RESERVED_HEADER_SIZE,
     next |-> f.pages[Slot(ptr)].next * PAGE_SIZE + RESERVED_HEADER_SIZE]

\* Mutant of acquire: the free byte is not looked at.
acquireFreed(f, pf, page) ==
    IF page >= pages(pf) THEN [ok |-> FALSE, err |-> "PageOutOfBounds"]
    ELSE [ok |-> TRUE, err |-> "none", page |-> load_page(f, PageAddress(page))]

\* PagedFile::acquire: the error, or the page loaded.
acquire(f, pf, page) ==
    IF page >= pages(pf) THEN [ok |-> FALSE, err |-> "PageOutOfBounds"]
    ELSE IF load_page(f, PageAddress(page)).free THEN [ok |-> FALSE, err |-> "PageFreedError"]
    ELSE [ok |-> TRUE, err |-> "none", page |-> load_page(f, PageAddress(page))]

\* Mutant of PopFree: the oldest free page is reused.
PopOldest(fl) == [ptr |-> fl[1], rest |-> Tail(fl)]

\* PagedFile::new_page, free_list.pop(): the page freed last is reused.
PopFree(fl) == [ptr |-> fl[Len(fl)], rest |-> SubSeq(fl, 1, Len(fl) - 1)]

\* PagedFile::new_page: the file, the PagedFile and the Page afterwards.
new_page(f, pf) ==
    LET fresh == pf.free_list = <<>>
        ptr == IF fresh THEN PageAddress(pages(pf)) ELSE PopFree(pf.free_list).ptr
        rest == IF fresh THEN <<>> ELSE PopFree(pf.free_list).rest
    IN  [file |-> FormatPage(f, ptr),
         paged |-> [pf EXCEPT !.free_list = rest, !.file_size = Reserved(pf, ptr, PAGE_SIZE)],
         page |-> [start |-> ptr, size |-> PAGE_SIZE, free |-> FALSE, previous |-> 0,
                   next |-> 0],
         fresh |-> fresh]

\* The ghost after new_page handed out the page at ptr.
Handed(g, ptr, fresh) ==
    [appended |-> IF fresh THEN g.appended + 1 ELSE g.appended, freed |-> g.freed \ {Slot(ptr)},
     linked |-> g.linked \ {Slot(ptr)}]

\* The record of a call: its name, the call it came after, its result, the
\* Page value it returned or was made on, and its argument.
FileCall(name, ok, err, h, arg) ==
    [n |-> flast.n + 1, op |-> name, after |-> flast.op, ok |-> ok, err |-> err, h |-> h,
     arg |-> arg]

\* PagedFile::open on the file as it is: an empty file gets the header page
\* and format_pagefile_header's bytes (Page::write puts them behind the 5
\* reserved bytes of the page); otherwise the free list is rebuilt.  The
\* Page values the program holds stay with it.
OpenFile ==
    /\ flast.n < MaxFileOps
    /\ IF file.len = 0
       THEN /\ file' = [FormatHeader(file) EXCEPT !.b5 = MAGIC_BYTE]
            /\ paged' = [open |-> TRUE, file_size |-> RESERVED_HEADER_SIZE,
                         is_initialized |-> TRUE, free_list |-> <<>>]
       ELSE /\ file' = file
            /\ paged' = [open |-> TRUE, file_size |-> file.len, is_initialized |-> TRUE,
                         free_list |-> FreeScan(file,
                             (file.len - RESERVED_HEADER_SIZE) \div PAGE_SIZE)]
    /\ flast' = FileCall("open", TRUE, "none", 0, 0)
    /\ UNCHANGED <<handles, fghost>>
    /\ UNCHANGED notPaged

\* PagedFile::new_page
NewPage ==
    /\ flast.n < MaxFileOps
    /\ paged.open
    /\ LET r == new_page(file, paged) IN
       /\ file' = r.file
       /\ paged' = r.paged
       /\ handles' = Append(handles, r.page)
       /\ fghost' = Handed(fghost, r.page.start, r.fresh)
       /\ flast' = FileCall("new_page", TRUE, "none", Len(handles) + 1, 0)
    /\ UNCHANGED notPaged

\* PagedFile::acquire(page)
Acquire(page) ==
    /\ flast.n < MaxFileOps
    /\ paged.open
    /\ LET r == acquire(file, paged, page) IN
       /\ handles' = IF r.ok THEN Append(handles, r.page) ELSE handles
       /\ flast' = FileCall("acquire", r.ok, r.err, IF r.ok THEN Len(handles) + 1 ELSE 0, page)
    /\ UNCHANGED <<file, paged, fghost>>
    /\ UNCHANGED notPaged

\* Page::free on the Page value h, whatever its state.
Free(h) ==
    /\ flast.n < MaxFileOps
    /\ paged.open
    /\ file' = [file EXCEPT !.pages[Slot(handles[h].start)].free = 1]
    /\ handles' = [handles EXCEPT ![h].free = TRUE]
    /\ paged' = [paged EXCEPT !.free_list = Append(@, handles[h].start)]
    /\ fghost' = [fghost EXCEPT !.freed = @ \cup {Slot(handles[h].start)}]
    /\ flast' = FileCall("free", TRUE, "none", h, 0)
    /\ UNCHANGED notPaged

\* Page::write of d (a nonzero byte) into the body of the page of h.
Write(h, d) ==
    /\ flast.n < MaxFileOps
    /\ paged.open
    /\ file' = [file EXCEPT !.pages[Slot(handles[h].start)].body = d]
    /\ flast' = FileCall("write", TRUE, "none", h, d)
    /\ UNCHANGED <<paged, handles, fghost>>
    /\ UNCHANGED notPaged

\* Page::get_next on the Page value h: the page behind the next link when
\* has_next(), else a new page, linked with set_previous and set_next.
GetNext(h) ==
    /\ flast.n < MaxFileOps
    /\ paged.open
    /\ IF has_next(handles[h])
       THEN LET r == acquire(file, paged, page_number(handles[h].next)) IN
            /\ handles' = IF r.ok THEN Append(handles, r.page) ELSE handles
            /\ flast' = FileCall("get_next", r.ok, r.err, IF r.ok THEN Len(handles) + 1 ELSE 0, h)
            /\ UNCHANGED <<file, paged, fghost>>
       ELSE LET r == new_page(file, paged)
                o == r.page
                me == page_number(handles[h].start)
                it == page_number(o.start) IN
            /\ file' = [r.file EXCEPT !.pages[Slot(o.start)].prev = me,
                                      !.pages[Slot(handles[h].start)].next = it]
            /\ paged' = r.paged
            /\ handles' = Append([handles EXCEPT ![h].next = RESERVED_HEADER_SIZE + it * PAGE_SIZE],
                              [o EXCEPT !.previous = RESERVED_HEADER_SIZE + me * PAGE_SIZE])
            /\ fghost' = [Handed(fghost, o.start, r.fresh) EXCEPT
                              !.linked = @ \cup {Slot(handles[h].start)}]
            /\ flast' = FileCall("get_next", TRUE, "none", Len(handles) + 1, h)
    /\ UNCHANGED notPaged

\* The files open may find: none, and a header whose byte 0 is the magic
\* byte or another byte.
InitialFiles ==
    {EmptyFile} \cup {[len |-> RESERVED_HEADER_SIZE, b0 |-> b, b5 |-> 0, pages |-> <<>>] :
                         b \in {MAGIC_BYTE, 7}}

InitPaged ==
    /\ Start("Database") /\ ClientNew(<<0, 1>>) /\ CodecNew(ZeroGet) /\ LeafNew
    /\ \E f \in InitialFiles : PagedNew(f)

NextPaged ==
    \/ OpenFile
    \/ NewPage
    \/ \E page \in 0..Len(file.pages) : Acquire(page)
    \/ \E h \in 1..Len(handles) : Free(h)
    \/ \E h \in 1..Len(handles) : Write(h, 1)
    \/ \E h \in 1..Len(handles) : GetNext(h)

SpecPaged == InitPaged /\ [][NextPaged]_vars

\* ------------------------------------------------------- the packet codec
\* network/decoder.rs, network/varint.rs and models/asynctrait.rs.  A byte is
\* a number in 0..255, a stream a sequence of bytes, a String a sequence of
\* code points, a u32 the pair of its 16-bit halves.

\* The longest String drawn for a key or a value, in code points.
MaxStrLen == 2
\* A String whose length prefix takes two bytes.
LongLen == 130

CURRENT_VERSION == 0

\* What a read returns: the value and the bytes after it, or the error.
Got(v, rest) == [ok |-> TRUE, v |-> v, rest |-> rest]
Failed(e) == [ok |-> FALSE, err |-> e]

\* LocalReadAsync::read_exact on a stream that has ended at its last byte.
read_exact(s, n) ==
    IF Len(s) < n THEN Failed("UnexpectedEof")
    ELSE Got(SubSeq(s, 1, n), SubSeq(s, n + 1, Len(s)))

read_u8(s) ==
    LET d == read_exact(s, 1) IN IF d.ok THEN Got(d.v[1], d.rest) ELSE d

\* u32::from_le_bytes, the other byte order.
from_le_bytes(d) == <<d[4] * 256 + d[3], d[2] * 256 + d[1]>>

\* u32::to_be_bytes and u32::from_be_bytes.
to_be_bytes(u) == <<u[1] \div 256, u[1] % 256, u[2] \div 256, u[2] % 256>>
from_be_bytes(d) == <<d[1] * 256 + d[2], d[3] * 256 + d[4]>>

write_u32(u) == to_be_bytes(u)
read_u32(s) ==
    LET d == read_exact(s, 4) IN IF d.ok THEN Got(from_be_bytes(d.v), d.rest) ELSE d

\* integer_encoding's VarInt: seven bits a byte, low bits first, the top bit
\* set on every byte but the last; a signed number is zigzagged first.
RECURSIVE encode_var(_)
encode_var(n) ==
    IF n < 128 THEN <<n>> ELSE <<128 + (n % 128)>> \o encode_var(n \div 128)

RECURSIVE decode_bits(_)
decode_bits(buf) ==
    IF Len(buf) = 1 THEN buf[1] % 128
    ELSE (buf[1] % 128) + 128 * decode_bits(Tail(buf))

\* None when ten bytes did not end the number.
decode_var(buf) ==
    IF Len(buf) > 10 THEN Failed("InvalidData") ELSE Got(decode_bits(buf), <<>>)

zigzag(n) == IF n >= 0 THEN 2 * n ELSE -2 * n - 1
unzigzag(u) == IF u % 2 = 0 THEN u \div 2 ELSE -((u + 1) \div 2)

\* The loop of OvrInteger::read: bytes up to the first one without the top bit.
RECURSIVE ReadVarBytes(_, _)
ReadVarBytes(s, buffer) ==
    LET byte == read_u8(s) IN
    IF ~byte.ok THEN byte
    ELSE IF byte.v < 128 THEN Got(Append(buffer, byte.v), byte.rest)
    ELSE ReadVarBytes(byte.rest, Append(buffer, byte.v))

\* OvrInteger::write and OvrInteger::read at u64 (usize) and at i64.
OvrWriteUnsigned(n) == encode_var(n)
OvrWriteSigned(n) == encode_var(zigzag(n))

\* What follows a read is a definition of its own that takes the result of
\* the read: the code's `?` returns the error, and goes on otherwise.
DecodeBuffer(b) ==
    IF ~b.ok THEN b
    ELSE LET n == decode_var(b.v) IN IF n.ok THEN Got(n.v, b.rest) ELSE n

OvrReadUnsigned(s) == DecodeBuffer(ReadVarBytes(s, <<>>))

Unzigzagged(n) == IF n.ok THEN Got(unzigzag(n.v), n.rest) ELSE n

OvrReadSigned(s) == Unzigzagged(OvrReadUnsigned(s))

\* str::as_bytes and String::from_utf8 for code points below 2048.
Utf8(c) == IF c < 128 THEN <<c>> ELSE <<192 + (c \div 64), 128 + (c % 64)>>

RECURSIVE as_bytes(_)
as_bytes(str) ==
    IF Len(str) = 0 THEN <<>>
    ELSE IF Len(str) = 1 THEN Utf8(str[1])
    ELSE LET half == Len(str) \div 2 IN
         as_bytes(SubSeq(str, 1, half)) \o as_bytes(SubSeq(str, half + 1, Len(str)))

\* The bytes are UTF-8 when every byte that opens two bytes is followed by a
\* continuation byte and every continuation byte follows such an opener.
from_utf8(b) ==
    LET continues(i) == b[i] >= 128 /\ b[i] < 192
        opens(i) == b[i] >= 194 /\ b[i] < 224
        valid == \A i \in 1..Len(b) :
                    \/ b[i] < 128
                    \/ opens(i) /\ i < Len(b) /\ continues(i + 1)
                    \/ continues(i) /\ i > 1 /\ opens(i - 1)
        first == SelectSeq([i \in 1..Len(b) |-> i], LAMBDA i : ~continues(i))
    IN  IF \A i \in 1..Len(b) : b[i] < 128 THEN Got(b, <<>>)
        ELSE IF valid
        THEN Got([j \in 1..Len(first) |->
                    IF b[first[j]] < 128 THEN b[first[j]]
                    ELSE (b[first[j]] - 192) * 64 + (b[first[j] + 1] - 128)], <<>>)
        ELSE Failed("FromUtf8Error")

\* OverseerSerde for &str: the length in bytes as a varint, then the bytes.
SerializeStr(str) == OvrWriteUnsigned(Len(as_bytes(str))) \o as_bytes(str)

DecodeStrBuf(str_buf) ==
    IF ~str_buf.ok THEN str_buf
    ELSE LET str == from_utf8(str_buf.v) IN
         IF str.ok THEN Got(str.v, str_buf.rest) ELSE Failed("FailedToReadValue")

ReadStrBuf(string_length) ==
    IF ~string_length.ok THEN string_length
    ELSE IF string_length.v = 0 THEN Got(<<>>, string_length.rest)
    ELSE DecodeStrBuf(read_exact(string_length.rest, string_length.v))

DeserializeStr(s) == ReadStrBuf(OvrReadUnsigned(s))

\* OverseerSerde for Key.
SerializeKey(key) == SerializeStr(key)
DeserializeKey(s) == DeserializeStr(s)

\* A Value is a String or an Integer.
StringValue(str) == [type |-> "String", s |-> str]
IntegerValue(i) == [type |-> "Integer", i |-> i]

write_value_string(str) == <<0>> \o SerializeStr(str)
write_value_signed_integer(i) == <<1>> \o OvrWriteSigned(i)

IntegerRead(val) == IF val.ok THEN Got(IntegerValue(val.v), val.rest) ELSE val
StringRead(str) == IF str.ok THEN Got(StringValue(str.v), str.rest) ELSE str

decode_value_signed_integer(s) == IntegerRead(OvrReadSigned(s))

\* OverseerSerde for Value.
SerializeValue(value) ==
    IF value.type = "String" THEN write_value_string(value.s)
    ELSE write_value_signed_integer(value.i)

ValueOfType(type_discrim) ==
    IF ~type_discrim.ok THEN type_discrim
    ELSE IF type_discrim.v = 0 THEN StringRead(DeserializeStr(type_discrim.rest))
    ELSE IF type_discrim.v = 1 THEN decode_value_signed_integer(type_discrim.rest)
    ELSE Failed("UnrecognizedValueTypeDiscriminator")

DeserializeValue(s) == ValueOfType(read_u8(s))

\* OverseerSerde for Option<&Value>.
None == [some |-> FALSE]
Some(value) == [some |-> TRUE, v |-> value]

SerializeOption(val) == IF val.some THEN <<1>> \o SerializeValue(val.v) ELSE <<0>>

SomeRead(value) == IF value.ok THEN Got(Some(value.v), value.rest) ELSE value

OptionOfFlag(flag) ==
    IF ~flag.ok THEN flag
    ELSE IF flag.v = 0 THEN Got(None, flag.rest)
    ELSE IF flag.v = 1 THEN SomeRead(DeserializeValue(flag.rest))
    ELSE Failed("InvalidData")

DeserializeOption(s) == OptionOfFlag(read_u8(s))

\* OverseerSerde for bool.
SerializeBool(b) == IF b THEN <<1>> ELSE <<0>>

BoolOfByte(byte) ==
    IF ~byte.ok THEN byte
    ELSE IF byte.v = 0 THEN Got(FALSE, byte.rest)
    ELSE IF byte.v = 1 THEN Got(TRUE, byte.rest)
    ELSE Failed("InvalidData")

DeserializeBool(s) == BoolOfByte(read_u8(s))

\* WatcherActivity and WatcherBehaviour: discriminator and try_from.
ActivityDiscriminator(a) == IF a = "Kickback" THEN 0 ELSE 1
BehaviourDiscriminator(b) == IF b = "Ordered" THEN 0 ELSE 1

ActivityTryFrom(value) ==
    IF value = 0 THEN Got("Kickback", <<>>)
    ELSE IF value = 1 THEN Got("Lazy", <<>>)
    ELSE Failed("WatcherActivityDecodeError")

BehaviourTryFrom(value) ==
    IF value = 0 THEN Got("Ordered", <<>>)
    ELSE IF value = 1 THEN Got("Eager", <<>>)
    ELSE Failed("WatcherBehaviourDecodeError")

\* PacketPayload and its discriminator.
PayloadKinds == <<"Insert", "Get", "Watch", "Release", "Delete", "Notify", "Return">>

discriminator(payload) == CHOOSE d \in 0..6 : PayloadKinds[d + 1] = payload.kind

\* The body write_packet writes after the discriminator, by payload kind.
WritePayload(p) ==
    CASE p.kind = "Get" -> SerializeKey(p.key)
      [] p.kind = "Insert" -> SerializeKey(p.key) \o SerializeValue(p.value)
      [] p.kind = "Release" -> SerializeKey(p.key)
      [] p.kind = "Watch" ->
            SerializeKey(p.key)
                \o <<ActivityDiscriminator(p.activity), BehaviourDiscriminator(p.behaviour)>>
      [] p.kind = "Delete" -> SerializeKey(p.key)
      [] p.kind = "Notify" ->
            SerializeKey(p.key) \o SerializeOption(p.value) \o SerializeBool(p.more)
      [] p.kind = "Return" -> SerializeKey(p.key) \o SerializeOption(p.value)

write_packet(p) ==
    <<CURRENT_VERSION>> \o write_u32(p.id[1]) \o write_u32(p.id[2])
        \o <<discriminator(p.payload)>> \o WritePayload(p.payload)

\* read_get_packet, read_release_packet and read_delete_packet.
KeyedOf(kind, key) ==
    IF key.ok THEN Got([kind |-> kind, key |-> key.v], key.rest) ELSE key

ReadKeyed(kind, s) == KeyedOf(kind, DeserializeKey(s))

SetOf(key, value) ==
    IF ~value.ok THEN value
    ELSE Got([kind |-> "Insert", key |-> key.v, value |-> value.v], value.rest)

SetValue(key) == IF ~key.ok THEN key ELSE SetOf(key, DeserializeValue(key.rest))

read_set_packet(s) == SetValue(DeserializeKey(s))

WatchOf(key, activity, b) ==
    IF ~b.ok THEN b
    ELSE IF ~BehaviourTryFrom(b.v).ok THEN BehaviourTryFrom(b.v)
    ELSE Got([kind |-> "Watch", key |-> key.v,
              activity |-> activity.v, behaviour |-> BehaviourTryFrom(b.v).v],
             b.rest)

WatchBehaviour(key, a) ==
    IF ~a.ok THEN a
    ELSE IF ~ActivityTryFrom(a.v).ok THEN ActivityTryFrom(a.v)
    ELSE WatchOf(key, ActivityTryFrom(a.v), read_u8(a.rest))

WatchActivity(key) == IF ~key.ok THEN key ELSE WatchBehaviour(key, read_u8(key.rest))

read_watch_packet(s) == WatchActivity(DeserializeKey(s))

NotifyOf(key, value, more) ==
    IF ~more.ok THEN more
    ELSE Got([kind |-> "Notify", key |-> key.v, value |-> value.v, more |-> more.v],
             more.rest)

NotifyMore(key, value) ==
    IF ~value.ok THEN value ELSE NotifyOf(key, value, DeserializeBool(value.rest))

NotifyValue(key) == IF ~key.ok THEN key ELSE NotifyMore(key, DeserializeOption(key.rest))

read_notify_packet(s) == NotifyValue(DeserializeKey(s))

ReturnOf(key, value) ==
    IF ~value.ok THEN value
    ELSE Got([kind |-> "Return", key |-> key.v, value |-> value.v], value.rest)

ReturnValue(key) == IF ~key.ok THEN key ELSE ReturnOf(key, DeserializeOption(key.rest))

read_getreturn_packet(s) == ReturnValue(DeserializeKey(s))

PayloadOf(discrim) ==
    IF ~discrim.ok THEN discrim
    ELSE CASE discrim.v = 0 -> read_set_packet(discrim.rest)
           [] discrim.v = 1 -> ReadKeyed("Get", discrim.rest)
           [] discrim.v = 2 -> read_watch_packet(discrim.rest)
           [] discrim.v = 3 -> ReadKeyed("Release", discrim.rest)
           [] discrim.v = 4 -> ReadKeyed("Delete", discrim.rest)
           [] discrim.v = 5 -> read_notify_packet(discrim.rest)
           [] discrim.v = 6 -> read_getreturn_packet(discrim.rest)
           [] OTHER -> Failed("UnrecognizedPacketTypeDiscriminator")

read_packet_v0(s) == PayloadOf(read_u8(s))

PacketOf(id_first, id_second, payload) ==
    IF ~payload.ok THEN payload
    ELSE Got([id |-> <<id_first.v, id_second.v>>, payload |-> payload.v], payload.rest)

PacketBody(version, id_first, id_second) ==
    IF ~id_second.ok THEN id_second
    ELSE IF version.v # 0 THEN Failed("UnknownPacketSchema")
    ELSE PacketOf(id_first, id_second, read_packet_v0(id_second.rest))

PacketIdSecond(version, id_first) ==
    IF ~id_first.ok THEN id_first
    ELSE PacketBody(version, id_first, read_u32(id_first.rest))

PacketIdFirst(version) ==
    IF ~version.ok THEN version ELSE PacketIdSecond(version, read_u32(version.rest))

read_packet(s) == PacketIdFirst(read_u8(s))

\* The inputs: code points of one and of two bytes, Strings up to MaxStrLen
\* and one long one, Integers around the varint's byte boundaries, u32 halves
\* at both ends.
Chars == {97, 233}
Strings ==
    UNION {[1..n -> Chars] : n \in 0..MaxStrLen} \cup {[i \in 1..LongLen |-> 97]}
IntegerSamples == {0, 1, -1, 63, -64, 64, -65, 8191, -8192, 8192, 536870912, -536870912}
WireValues == {StringValue(str) : str \in Strings} \cup {IntegerValue(i) : i \in IntegerSamples}
Optionals == {None} \cup {Some(value) : value \in WireValues}
U32s == {<<0, 0>>, <<1, 258>>, <<U16 - 1, U16 - 1>>}
PacketIds == U32s \X U32s

Payloads ==
    {[kind |-> "Insert", key |-> k, value |-> v] : k \in Strings, v \in WireValues}
    \cup {[kind |-> kind, key |-> k] : kind \in {"Get", "Release", "Delete"}, k \in Strings}
    \cup {[kind |-> "Watch", key |-> k, activity |-> a, behaviour |-> b] :
            k \in Strings, a \in Activities, b \in Behaviours}
    \cup {[kind |-> "Notify", key |-> k, value |-> v, more |-> m] :
            k \in Strings, v \in Optionals, m \in BOOLEAN}
    \cup {[kind |-> "Return", key |-> k, value |-> v] : k \in Strings, v \in Optionals}

Packets == {[id |-> id, payload |-> p] : id \in PacketIds, p \in Payloads}

\* What the writer writes after the packet: nothing yet, or more traffic.
Following == {<<>>, <<0>>, <<CURRENT_VERSION, 0, 0, 0, 1>>, <<128, 255>>}

\* The writer writes the packet and then whatever follows it.
WritePacket(then) ==
    /\ sent.bytes = <<>>
    /\ stream' = stream \o write_packet(packet) \o then
    /\ sent' = [bytes |-> write_packet(packet), then |-> then]
    /\ UNCHANGED <<packet, decoded>>
    /\ UNCHANGED notCodec

\* The reader reads one packet; the stream keeps what the read left.
ReadPacket ==
    /\ sent.bytes # <<>>
    /\ decoded.read = FALSE
    /\ decoded' = [read |-> TRUE, result |-> read_packet(stream)]
    /\ stream' = IF decoded'.result.ok THEN decoded'.result.rest ELSE <<>>
    /\ UNCHANGED <<packet, sent>>
    /\ UNCHANGED notCodec

InitCodec ==
    /\ Start("Database") /\ ClientNew(<<0, 1>>) /\ PagedNew(EmptyFile) /\ LeafNew
    /\ \E p \in Packets : CodecNew(p)

NextCodec == (\E then \in Following : WritePacket(then)) \/ ReadPacket

SpecCodec == InitCodec /\ [][NextCodec]_vars

\* ----------------------------------------------------------- the leaf page
\* database/store/paging/leaf_page.rs on the page of paging/page.rs.  The body
\* of the page is the bytes after the page's reserved bytes.

PAGE_HEADER_RESERVED_BYTES == 1 + 4
FRAGMENTATION_SIZE == 4
\* Calls on the leaf page in one transaction.
MaxLeafOps == 4

\* Projection::capacity, for a page of PAGE_SIZE bytes.
capacity == PAGE_SIZE - PAGE_HEADER_RESERVED_BYTES
\* Projection<Leaf>::header_size and FreeBlock::size.
header_size == 10
FreeBlockSize == 2 + 2 + 2

\* Reading and writing slices of the body.  A run is a stretch of addresses
\* lo..hi that all hold the byte b, b not zero; the body is a set of runs that
\* do not overlap, and every address outside them holds zero.
ByteAt(m, a) ==
    IF \E r \in m : r.lo <= a /\ a <= r.hi
    THEN (CHOOSE r \in m : r.lo <= a /\ a <= r.hi).b
    ELSE 0

\* body[a..e], run by run.
RECURSIVE SliceTo(_, _, _)
SliceTo(m, a, e) ==
    LET ahead == {r \in m : r.hi >= a /\ r.lo < e}
        r == CHOOSE q \in ahead : \A p \in ahead : q.lo <= p.lo
        from == IF r.lo > a THEN r.lo ELSE a
        to == IF r.hi < e - 1 THEN r.hi ELSE e - 1
    IN  IF a >= e THEN <<>>
        ELSE IF ahead = {} THEN [i \in 1..(e - a) |-> 0]
        ELSE [i \in 1..(from - a) |-> 0] \o [i \in 1..(to - from + 1) |-> r.b]
                \o SliceTo(m, to + 1, e)

Slice(m, a, n) == SliceTo(m, a, a + n)

\* The runs of the bytes, the first of them at address a.
RunsOf(bytes, a) ==
    LET n == Len(bytes)
        ends == {j \in 1..n : j = n \/ bytes[j + 1] # bytes[j]}
        starts == {i \in 1..n : bytes[i] # 0 /\ (i = 1 \/ bytes[i - 1] # bytes[i])}
        end(i) == CHOOSE j \in ends : j >= i /\ \A k \in ends : k >= i => j <= k
    IN  {[lo |-> a + i - 1, hi |-> a + end(i) - 1, b |-> bytes[i]] : i \in starts}

\* body[a..a + n].fill(0).
fill_zero(m, a, n) ==
    {r \in m : r.hi < a \/ r.lo >= a + n}
        \cup {[r EXCEPT !.hi = a - 1] : r \in {q \in m : q.lo < a /\ q.hi >= a}}
        \cup {[r EXCEPT !.lo = a + n] : r \in {q \in m : q.lo < a + n /\ q.hi >= a + n}}

\* body[a..a + bytes.len()].copy_from_slice(bytes).
copy_from_slice(m, a, bytes) == fill_zero(m, a, Len(bytes)) \cup RunsOf(bytes, a)

\* u16::from_le_bytes of body[a..a + 2], and (v as u16).to_le_bytes().
u16_from_le(m, a) == ByteAt(m, a) + 256 * ByteAt(m, a + 1)
u16_to_le(v) == <<(v % U16) % 256, (v % U16) \div 256>>

\* The header of the leaf page.
get_cell_count(m) == u16_from_le(m, 0)
get_used_space(m) == u16_from_le(m, 2)
get_free_block_ptr(m) == u16_from_le(m, 4)
get_lead_offset(m) == u16_from_le(m, 6)
get_fragmented(m) == u16_from_le(m, 8)
get_free_space(m) == capacity - header_size - get_used_space(m)

set_cell_count(m, cells) == copy_from_slice(m, 0, u16_to_le(cells))
set_used_space(m, total) == copy_from_slice(m, 2, u16_to_le(total))
set_free_ptr(m, ptr) == copy_from_slice(m, 4, u16_to_le(ptr))
set_lead_offset(m, ptr) == copy_from_slice(m, 6, u16_to_le(ptr))
set_fragmented(m, count) == copy_from_slice(m, 8, u16_to_le(count))

\* The cell-offset array.
calculate_offset_index(cell) == header_size + cell * 2
get_offset(m, cell) == u16_from_le(m, calculate_offset_index(cell))

\* A variant that stores the pointer one directory slot further on.
write_record_offset_after(m, offset_index, record_ptr) ==
    copy_from_slice(m, header_size + (offset_index + 1) * 2, u16_to_le(record_ptr))

write_record_offset(m, offset_index, record_ptr) ==
    copy_from_slice(m, header_size + offset_index * 2, u16_to_le(record_ptr))
check_record_exists(m, record) == get_offset(m, record) # 0

\* OvrInteger::required_space, to_bytes and read_slice: the varint of a length.
required_space(n) == Len(encode_var(n))
OvrToBytes(n) == encode_var(n)
OvrReadSlice(m, a) == OvrReadUnsigned(Slice(m, a, 10)).v

\* Record::produce and SerializedRecord::total_serialized_size.
produce(value) == [value |-> value, data |-> SerializeOption(value)]
total_serialized_size(record) == Len(record.data) + required_space(Len(record.data))

will_fit(m, record) == Len(record.data) + header_size <= get_free_space(m)

SizeCharacteristics(record_size) == <<required_space(record_size), record_size>>

get_record_size_characteristics(m, record) ==
    SizeCharacteristics(OvrReadSlice(m, get_offset(m, record)))

get_total_record_size(m, record) ==
    get_record_size_characteristics(m, record)[1]
        + get_record_size_characteristics(m, record)[2]

\* FreeBlock::read and FreeBlock::write.
FreeBlockRead(m, position) ==
    [position |-> position, next |-> u16_from_le(m, position),
     offset |-> u16_from_le(m, position + 2), size |-> u16_from_le(m, position + 4)]

FreeBlockWrite(m, start, next, offset, size) ==
    copy_from_slice(m, start, u16_to_le(next) \o u16_to_le(offset) \o u16_to_le(size))

\* What the search for room returns: an Allocation, none, or no return at
\* all when the search never ends or an address leaves the body.
NoAllocation == [found |-> FALSE, abort |-> FALSE]
NoReturn == [found |-> FALSE, abort |-> TRUE]
Allocation(location, free_block, size, is_lead_allocation) ==
    [found |-> TRUE, abort |-> FALSE, location |-> location, free_block |-> free_block,
     size |-> size, is_lead_allocation |-> is_lead_allocation]

\* try_alloc_lead: below the records written so far, above the cell offsets.
\* A lead_ptr below zero is an overflow of usize: the checked build panics
\* there and the other build panics at the write to that address.
try_alloc_lead(m, size) ==
    LET lead_ptr == capacity - get_lead_offset(m) - size
        offset_size == header_size + 2 * get_cell_count(m)
    IN  IF lead_ptr < 0 THEN NoReturn
        ELSE IF lead_ptr <= offset_size THEN NoAllocation
        ELSE Allocation(lead_ptr, None, size, TRUE)

\* descend_free_chain: the block at pointer, or the end of the chain; with a
\* block that does not serve and has a successor the function calls itself
\* with the same pointer, and so never returns.
descend_free_chain(m, pointer, size) ==
    LET block == FreeBlockRead(m, pointer) IN
    IF block.size >= size /\ block.offset # 0
    THEN Allocation(block.offset, Some(block), size, FALSE)
    ELSE IF block.next = 0 THEN NoAllocation
    ELSE NoReturn

find_free_slot(m, size) ==
    LET star == get_free_block_ptr(m) IN
    IF star = 0 THEN NoAllocation ELSE descend_free_chain(m, star, size)

OrLead(m, size, alloc) ==
    IF alloc.found \/ alloc.abort THEN alloc ELSE try_alloc_lead(m, size)

can_allocate(m, size) ==
    IF size >= get_free_space(m) THEN NoAllocation
    ELSE OrLead(m, size, find_free_slot(m, size))

find_new_record_ptr(m, record) == can_allocate(m, total_serialized_size(record))

\* A variant that keeps a remainder of any size as a block.
adjust_free_block_whole(m, new_offset, new_size, block) ==
    FreeBlockWrite(m, block.position, block.next, new_offset, new_size)

adjust_free_block(m, new_offset, new_size, block) ==
    IF new_size <= FRAGMENTATION_SIZE
    THEN set_fragmented(FreeBlockWrite(m, block.position, block.next, 0, 0),
                        get_fragmented(m) + new_size)
    ELSE FreeBlockWrite(m, block.position, block.next, new_offset, new_size)

\* self.set_used_space(self.get_used_space() + n), and the same for the
\* fragmented count.
add_used_space(m, n) == set_used_space(m, get_used_space(m) + n)
add_fragmented(m, n) == set_fragmented(m, get_fragmented(m) + n)

\* solve_allocate: the bookkeeping after the allocation was used.
SolveBlock(m, allocation, fb) ==
    IF allocation.is_lead_allocation
    THEN set_lead_offset(m, get_lead_offset(m) + allocation.size)
    ELSE IF allocation.size = fb.size
         THEN FreeBlockWrite(m, fb.position, fb.next, 0, 0)
         ELSE adjust_free_block(m, fb.offset + allocation.size,
                                fb.size - allocation.size, fb)

solve_allocate(m, allocation) ==
    add_used_space(SolveBlock(m, allocation, allocation.free_block.v), allocation.size)

\* What a call on the page leaves: the body and Ok, a PageError, or abort.
Left(m, res) == [mem |-> m, res |-> res]

\* allocate_free_block: a free block describing size bytes at offset.
FreeBlockAt(m, offset, size, allocate) ==
    IF allocate.abort THEN [mem |-> m, res |-> "abort", location |-> 0]
    ELSE IF ~allocate.found THEN [mem |-> m, res |-> "LeafPageFull", location |-> 0]
    ELSE [mem |-> add_fragmented(
                      solve_allocate(FreeBlockWrite(m, allocate.location, 0, offset, size),
                                     allocate),
                      FreeBlockSize),
          res |-> "Ok", location |-> allocate.location]

allocate_free_block(m, offset, size) ==
    FreeBlockAt(m, offset, size, can_allocate(m, FreeBlockSize))

\* update_free_chain: the freed bytes go into an unused block, widen a block
\* they touch, or get a new block at the end of the chain.
ChainEnd(current, new_block) ==
    IF new_block.res # "Ok" THEN Left(new_block.mem, new_block.res)
    ELSE Left(FreeBlockWrite(new_block.mem, current.position, new_block.location,
                             current.offset, current.size), "Ok")

RECURSIVE update_free_chain(_, _, _, _)
update_free_chain(m, pointer, start, size) ==
    LET current == FreeBlockRead(m, pointer)
        next_ptr == current.next
    IN  IF current.offset = 0
        THEN Left(FreeBlockWrite(m, pointer, next_ptr, start, size), "Ok")
        ELSE IF start + size = current.offset
        THEN Left(FreeBlockWrite(m, current.position, current.next, start,
                                 current.size + size), "Ok")
        ELSE IF current.offset + current.size = start
        THEN Left(FreeBlockWrite(m, current.position, current.next, current.offset,
                                 current.size + size), "Ok")
        ELSE IF current.next = 0
        THEN ChainEnd(current, allocate_free_block(m, start, size))
        ELSE update_free_chain(m, next_ptr, start, size)

ChainHead(new_ptr) ==
    IF new_ptr.res # "Ok" THEN Left(new_ptr.mem, new_ptr.res)
    ELSE Left(set_free_ptr(new_ptr.mem, new_ptr.location), "Ok")

update_free_list(m, start, size) ==
    IF get_free_block_ptr(m) = 0
    THEN ChainHead(allocate_free_block(m, start, size))
    ELSE update_free_chain(m, get_free_block_ptr(m), start, size)

\* write_serialized_record.  stage tells how far the call came: the fit
\* check, the search for room, or the end.
WriteBytes(m, record_ptr, size, data) ==
    copy_from_slice(copy_from_slice(m, record_ptr, size), record_ptr + Len(size), data)

WriteAllocated(counted, record, new_cell_count, record_allocation) ==
    IF record_allocation.abort
    THEN [mem |-> counted, res |-> "abort", stage |-> "alloc"]
    ELSE IF ~record_allocation.found
    THEN [mem |-> counted, res |-> "LeafPageFull", stage |-> "alloc"]
    ELSE IF record_allocation.location + Len(OvrToBytes(Len(record.data)))
                + Len(record.data) > capacity
    THEN [mem |-> counted, res |-> "abort", stage |-> "alloc"]
    ELSE [mem |-> solve_allocate(
                      add_used_space(
                          write_record_offset(
                              WriteBytes(counted, record_allocation.location,
                                         OvrToBytes(Len(record.data)), record.data),
                              new_cell_count - 1, record_allocation.location),
                          2),
                      record_allocation),
          res |-> "Ok", stage |-> "done"]

WriteCounted(counted, record, new_cell_count) ==
    WriteAllocated(counted, record, new_cell_count, find_new_record_ptr(counted, record))

write_serialized_record(m, record) ==
    IF ~will_fit(m, record) THEN [mem |-> m, res |-> "LeafPageFull", stage |-> "fit"]
    ELSE WriteCounted(set_cell_count(m, get_cell_count(m) + 1), record,
                      get_cell_count(m) + 1)

\* [a, a + n).rotate_left(mid) on the body.
rotate_left(m, a, n, mid) ==
    copy_from_slice(fill_zero(m, a, n), a,
                    SubSeq(Slice(m, a, n), mid + 1, n) \o SubSeq(Slice(m, a, n), 1, mid))

\* simple_delete: the record goes, the offsets after it move one place down,
\* and its bytes go to the free list.
Erased(m, record, initial_cell_count, size, offset) ==
    set_cell_count(
        add_used_space(fill_zero(fill_zero(m, 2 * record + header_size, 2), offset, size),
                       -(2 + size)),
        initial_cell_count - 1)

ShiftDown(counted, initial_cell_count, to_shift, end_shft) ==
    IF initial_cell_count > 1 /\ end_shft + 2 - to_shift < 2
    THEN Left(counted, "abort")
    ELSE Left(IF initial_cell_count > 1
              THEN rotate_left(counted, to_shift, end_shft + 2 - to_shift, 2)
              ELSE counted, "Ok")

Freed(shifted, offset, size) ==
    IF shifted.res # "Ok" THEN shifted ELSE update_free_list(shifted.mem, offset, size)

DeleteSized(m, record, initial_cell_count, size, offset) ==
    Freed(ShiftDown(Erased(m, record, initial_cell_count, size, offset),
                    initial_cell_count, calculate_offset_index(record),
                    calculate_offset_index(initial_cell_count - 1)),
          offset, size)

simple_delete(m, record) ==
    IF ~check_record_exists(m, record) THEN Left(m, "NoRecordFound")
    ELSE DeleteSized(m, record, get_cell_count(m), get_total_record_size(m, record),
                     get_offset(m, record))

\* read_record: none past the cell count, else the record behind the offset.
Deserialized(size) == IF size.ok THEN DeserializeOption(size.rest) ELSE size

RecordRead(record) ==
    IF ~record.ok
    THEN [res |-> IF record.err = "UnexpectedEof" THEN "abort"
                  ELSE "RecordDeserializationFailure",
          found |-> FALSE]
    ELSE [res |-> "Ok", found |-> TRUE, value |-> record.v]

ReaderAt(m, offset) == Slice(m, offset, capacity - offset)

read_record(m, cell) ==
    IF cell >= get_cell_count(m) THEN [res |-> "Ok", found |-> FALSE]
    ELSE RecordRead(Deserialized(OvrReadUnsigned(ReaderAt(m, get_offset(m, cell)))))

\* The records that are written: none, Integers, a String, and Strings of
\* one byte repeated that reach the end of the page or pass it.
FitLen == capacity - header_size - header_size - 4
Repeated(n) == StringValue([i \in 1..n |-> 23])
Records ==
    << None,
       Some(IntegerValue(32)),
       Some(IntegerValue(339939393)),
       Some(StringValue(<<104, 101, 108, 108, 111, 32, 97, 110, 100, 114, 101, 119>>)),
       Some(Repeated(FitLen)),
       Some(Repeated(FitLen + 1)),
       Some(Repeated(FitLen + 7)),
       Some(Repeated(PAGE_SIZE + 2)) >>

\* Record::produce of each of them.
Produced == [r \in 1..Len(Records) |-> produce(Records[r])]

LeafCall(name, arg, res, stage, out) ==
    [n |-> llast.n + 1, op |-> name, arg |-> arg, res |-> res, stage |-> stage, out |-> out]

Running == llast.n < MaxLeafOps /\ llast.res # "abort"

\* leaf.write_record(Records[r]).
WriteRecord(r) ==
    /\ Running
    /\ \E w \in {write_serialized_record(leaf, Produced[r])} :
        /\ leaf' = w.mem
        /\ llast' = LeafCall("write_record", r, w.res, w.stage, None)
        /\ lghost' = IF w.res = "Ok"
                     THEN [lghost EXCEPT !.written = Append(@, r)]
                     ELSE lghost
    /\ UNCHANGED notLeaf

\* leaf.simple_delete(record).
SimpleDelete(record) ==
    /\ Running
    /\ \E d \in {simple_delete(leaf, record)} :
        /\ leaf' = d.mem
        /\ llast' = LeafCall("simple_delete", record, d.res, "done", None)
        /\ lghost' = IF d.res = "NoRecordFound" THEN lghost
                     ELSE [lghost EXCEPT !.deleted = TRUE]
    /\ UNCHANGED notLeaf

\* leaf.read_record(cell).
ReadRecord(cell) ==
    /\ Running
    /\ \E r \in {read_record(leaf, cell)} :
        llast' = LeafCall("read_record", cell, r.res, "done",
                          IF r.found THEN Some(r.value) ELSE None)
    /\ UNCHANGED <<leaf, lghost>>
    /\ UNCHANGED notLeaf

InitLeaf ==
    /\ Start("Database") /\ ClientNew(<<0, 1>>) /\ PagedNew(EmptyFile) /\ CodecNew(ZeroGet)
    /\ LeafNew

NextLeaf ==
    \/ \E r \in 1..Len(Records) : WriteRecord(r)
    \/ \E record \in 0..get_cell_count(leaf) : SimpleDelete(record)
    \/ \E cell \in 0..get_cell_count(leaf) : ReadRecord(cell)

SpecLeaf == InitLeaf /\ [][NextLeaf]_vars

\* ------------------------------------------------------------ the claims
WatcherIds == 1..Len(watchers)

\* The subscriber task is suspended in wait() and no store operation runs.
Quiescent(w) == op = Idle /\ watchers[w].pc = "parked"

\* The mutations of a watcher's key performed since it subscribed.
Since(w) == SubSeq(hist[watchers[w].key], watchers[w].since + 1, Len(hist[watchers[w].key]))

\* The values successive wait() calls return before one suspends.
PendingWaits(w) == Vals(RunTask(w, 0, -1).w.seen)

\* C1: an Ordered subscriber that subscribed (Lazy) before the first
\* mutation of its key sees, through wait(), exactly the values of the
\* mutations in the order the store performed them: never anything else, and
\* all of them once it is suspended again.
C1_OrderedSeesExactSequence ==
    \A w \in WatcherIds :
        (/\ watchers[w].mode = "Ordered"
         /\ watchers[w].activity = "Lazy"
         /\ watchers[w].since = 0
         /\ ~watchers[w].killed)
        => /\ IsPrefix(Vals(watchers[w].seen), hist[watchers[w].key])
           /\ (Quiescent(w) /\ InIndex(w)) => Vals(watchers[w].seen) = hist[watchers[w].key]

\* C2: while a notify runs no watcher of the key is signaled before the value
\* is deposited in all of them, and when it ends every one of them holds the
\* value as its last deposit and has been signaled.
C2_NoSignalBeforeAllDeposits ==
    /\ (op.started /\ op.sig # {}) => op.todo = {}
    /\ (op.steps # <<>> /\ Head(op.steps) = "respond")
          => \A w \in op.subs : watchers[w].last = op.val /\ w \in op.sig

\* C3: records is written before any subscriber is notified: a deposit that
\* reports mutation m is only ever held, and only ever returned by wait(),
\* when the key's version in records is m or later.
C3_WriteBeforeNotify ==
    \A w \in WatcherIds :
        /\ \A i \in 1..Len(watchers[w].hold) :
              watchers[w].hold[i].m <= ver[watchers[w].key]
        /\ \A i \in 1..Len(watchers[w].seen) :
              watchers[w].seen[i].m <= watchers[w].seen[i].at

C3_Witness ==
    \E w \in WatcherIds : \E i \in 1..Len(watchers[w].seen) :
        watchers[w].seen[i].m > 0 /\ watchers[w].seen[i].at >= watchers[w].seen[i].m

\* C4: an Eager watcher's wait() returns only after a wake and returns the
\* value of the last wake; once its task is suspended again the last value
\* it returned is the key's current value, so all Eager subscribers agree.
C4_EagerReturnsLatest ==
    \A w \in WatcherIds :
        (watchers[w].mode = "Eager" /\ ~watchers[w].killed)
        => /\ \A i \in 1..Len(watchers[w].seen) :
                 watchers[w].seen[i].fresh /\ watchers[w].seen[i].v = watchers[w].seen[i].last
           /\ (Quiescent(w) /\ InIndex(w) /\ watchers[w].seen # <<>>)
                 => Last(watchers[w].seen).v = Get(records, watchers[w].key)

\* C5: right after subscribe, before any mutation and before the consumer
\* ran, a Kickback consumer has exactly one delivery pending, the key's
\* value (force_recv() and the first wait() return it, the next wait()
\* suspends), and a Lazy consumer has none.
C5_KickbackOnePendingLazyNone ==
    \A w \in WatcherIds :
        (/\ watchers[w].pc = "ready"
         /\ watchers[w].seen = <<>>
         /\ ~watchers[w].killed
         /\ watchers[w].since = Len(hist[watchers[w].key])
         /\ op = Idle)
        => IF watchers[w].activity = "Kickback"
           THEN /\ ForceRecv(watchers[w]) = Get(records, watchers[w].key)
                /\ PendingWaits(watchers[w]) = <<Get(records, watchers[w].key)>>
           ELSE /\ ForceRecv(watchers[w]) = NULL
                /\ PendingWaits(watchers[w]) = <<>>

\* C6: an Ordered Kickback subscriber sees the kickback value and then the
\* mutations performed after its subscription, nothing else, and once it is
\* suspended again the last value it saw is the key's current value.
C6_KickbackThenMutations ==
    \A w \in WatcherIds :
        (/\ watchers[w].mode = "Ordered"
         /\ watchers[w].activity = "Kickback"
         /\ ~watchers[w].killed
         /\ InIndex(w))
        => /\ IsPrefix(Vals(watchers[w].seen), <<watchers[w].kick>> \o Since(w))
           /\ (Quiescent(w) /\ watchers[w].seen # <<>>)
                 => Last(watchers[w].seen).v = Get(records, watchers[w].key)

\* A step that subscribes: the read loop handled a Watch.
IsSubscribe == Len(watchers') = Len(watchers) + 1

NewKey == watchers'[Len(watchers')].key

NewClient == watchers'[Len(watchers')].client

C8_AtMostOneSubscription ==
    \A e1 \in index, e2 \in index :
        (e1.key = e2.key /\ e1.client = e2.client) => e1 = e2

C8_Witness ==
    \E w1 \in WatcherIds, w2 \in WatcherIds :
        /\ w1 < w2
        /\ watchers[w1].key = watchers[w2].key
        /\ watchers[w1].client = watchers[w2].client
        /\ InIndex(w2)

\* C9: a Notify enqueued to a client that has released the key (and not
\* watched it again) never reports a mutation performed after the Release.
C9_NoNotifyAfterRelease ==
    \A c \in Clients : \A i \in 1..Len(queue[c]) :
        (queue[c][i].kind = "Notify" /\ queue[c][i].relAt >= 0)
        => queue[c][i].m <= queue[c][i].relAt

C9_Witness ==
    \E c \in Clients, k \in Keys :
        /\ released[c, k] >= 0
        /\ ver[k] > released[c, k]
        /\ \E w \in WatcherIds : watchers[w].client = c /\ watchers[w].key = k /\ watchers[w].pc = "done"
        /\ op = Idle

\* C10: delete returns whether the key was bound and release whether the
\* pair was subscribed; a call that returns false changes neither records
\* nor the index nor any watcher, also while the read loop finishes the
\* request.
C10_FalseChangesNothing ==
    [][/\ lastCall'.n # lastCall.n =>
           /\ lastCall'.result = lastCall'.was
           /\ ~lastCall'.result =>
                 (records' = records /\ index' = index /\ watchers' = watchers)
       /\ (op.kind = "delete" /\ ~op.result) =>
             (records' = records /\ index' = index /\ watchers' = watchers)]_vars

C10_Witness ==
    /\ lastCall.call = "delete"
    /\ ~lastCall.result
    /\ Subscribers(index, lastCall.key) # {}
    /\ op = Idle
    /\ \E c \in Clients : \E i \in 1..Len(queue[c]) :
          queue[c][i].kind = "Get" /\ queue[c][i].pid = lastCall.n

\* The value of the last mutation in a key's history h: the value of the most
\* recent insert not followed by a delete, NULL if there is none.
Current(h) == IF h = <<>> THEN NULL ELSE Last(h)

\* C11: get(k) is the value of the most recent insert of k not followed by a
\* delete (null if there is none), and the Return the read loop enqueues for
\* a Get(k) carries that value.
C11_GetReturnsLatest ==
    [][/\ \A k \in Keys : Get(records', k) = Current(hist'[k])
       /\ \A c \in Clients, k \in Keys :
             HandleGet(c, k) =>
                 /\ Last(queue'[c]).kind = "Return"
                 /\ Last(queue'[c]).key = k
                 /\ Last(queue'[c]).val = Current(hist[k])]_vars

\* An Insert was acknowledged with its value, the key was then deleted, and a
\* later Get was answered with null.
C11_Witness ==
    \E c \in Clients : \E i \in 1..Len(queue[c]) : \E j \in 1..Len(queue[c]) :
        /\ i < j
        /\ queue[c][i].kind = "Return" /\ queue[c][i].val # NULL
        /\ queue[c][j].kind = "Return" /\ queue[c][j].val = NULL
        /\ \E k \in Keys : Len(hist[k]) = 2 /\ Last(hist[k]) = NULL

\* C12: the store holds exactly one record per key whose get is not null: a
\* re-insert does not grow the map and a delete leaves no tombstone.
C12_LenCountsBoundKeys ==
    DbLen(records) = Cardinality({k \in Keys : Get(records, k) # NULL})

\* A key was inserted twice and then deleted.
C12_Witness ==
    \E k \in Keys :
        /\ Len(hist[k]) >= 3
        /\ hist[k][1] # NULL /\ hist[k][2] # NULL /\ hist[k][1] # hist[k][2]
        /\ Last(hist[k]) = NULL
        /\ op = Idle

\* This step enqueues exactly one packet, to client c: a response of the given
\* kind carrying the request's packet id, the key and the value.
OneResponse(c, kind, pid, k, v) ==
    /\ Len(queue'[c]) = Len(queue[c]) + 1
    /\ queue' = [queue EXCEPT ![c] = Append(@, Last(queue'[c]))]
    /\ Last(queue'[c]).kind = kind
    /\ Last(queue'[c]).pid = pid
    /\ Last(queue'[c]).key = k
    /\ Last(queue'[c]).val = v

\* The responses (packets with a nonzero id) enqueued to client c.
Responses(c) == {i \in 1..Len(queue[c]) : queue[c][i].pid # 0}

C14_ResponsesInRequestOrder ==
    \A c \in Clients :
        /\ \A i \in 1..Len(socket[c]), j \in 1..Len(socket[c]) :
              (i < j /\ socket[c][i].pid # 0 /\ socket[c][j].pid # 0)
                  => socket[c][i].pid < socket[c][j].pid
        /\ IsPrefix(socket[c], queue[c])

\* The pump wrote a response, then a Notify, then a later response.
C14_Witness ==
    \E c \in Clients : \E i \in 1..Len(socket[c]) :
        /\ i + 2 <= Len(socket[c])
        /\ socket[c][i].pid # 0
        /\ socket[c][i + 1].kind = "Notify"
        /\ socket[c][i + 2].pid # 0

\* C15: once the read loop of a client has ended, the client has no
\* subscription in the index, each of its watchers is killed with its
\* subscriber task resumed or finished, and no mutation performed after the
\* end is deposited in or delivered by its watchers.
C15_TeardownOnDisconnect ==
    \A c \in Clients :
        closedAt[c] >= 0 =>
            /\ \A e \in index : e.client # c
            /\ \A w \in WatcherIds :
                  watchers[w].client = c =>
                      /\ watchers[w].killed
                      /\ watchers[w].pc # "parked"
                      /\ \A i \in 1..Len(watchers[w].hold) :
                            watchers[w].hold[i].m <= closedAt[c]
                      /\ \A i \in 1..Len(watchers[w].seen) :
                            watchers[w].seen[i].m <= closedAt[c]

\* C16: a kill resumes the consumer suspended in wait(); from then on
\* is_killed() stays true and the consumer is never suspended again; the
\* subscriber task, when it next runs, leaves its loop and enqueues nothing.
C16_KillEndsSubscriber ==
    [][\A w \in WatcherIds :
          /\ watchers[w].killed => watchers'[w].killed
          /\ (~watchers[w].killed /\ watchers'[w].killed /\ watchers[w].pc = "parked")
                => watchers'[w].pc = "woken"
          /\ watchers'[w].killed => watchers'[w].pc # "parked"
          /\ (watchers[w].killed /\ SubscriberRun(w))
                => (watchers'[w].pc = "done" /\ queue' = queue)]_vars

\* A subscriber delivered one mutation, suspended again, was killed by a
\* release and left its loop on the kill's null: its client got one Notify.
C16_Witness ==
    \E w \in WatcherIds :
        /\ watchers[w].killed
        /\ watchers[w].pc = "done"
        /\ Len(watchers[w].seen) = 2
        /\ watchers[w].seen[1].m > 0
        /\ watchers[w].seen[2] = [v |-> NULL, m |-> 0, at |-> watchers[w].seen[2].at,
                                  fresh |-> TRUE, last |-> NULL]
        /\ Cardinality({i \in 1..Len(queue[watchers[w].client]) :
                           queue[watchers[w].client][i].kind = "Notify"}) = 1

\* The operations that send a request.
Requests == {"Get", "Insert", "Delete", "Watch"}

\* C17: every request of the client carries a nonzero id, however many
\* requests the u32 counter has numbered, that no other pending request
\* carries, and every operation completes with the packet of its own id.
C17_RequestIdsNonzero ==
    /\ \A n \in 1..Len(links) : \A i \in 1..Len(links[n].up) : links[n].up[i].pid # PushId
    /\ caller.pc = "send" => caller.id # PushId /\ caller.id \notin channels
    /\ \A i \in 1..Len(results) :
           results[i].kind \in Requests /\ results[i].ok => results[i].rid = results[i].id


\* C18: when the connection is lost while a request of the client is
\* unanswered, the operation that waits for the response eventually returns.
C18_LostConnectionCompletes ==
    (caller.pc = "recv" /\ write # 0 /\ links[write].broken) ~> (caller.pc = "idle")


\* reset_connection() has returned at some point before.
HasReset == \E i \in 1..Len(results) : results[i].kind = "Reset"

\* reset_connection() has just returned.
ResetReturned == caller.pc = "idle" /\ results # <<>> /\ Last(results).kind = "Reset"

\* After reset_connection() the client holds no socket.
NoSocketAfterReset == ResetReturned => write = 0

\* A request is sent on the socket the client holds, which has not been shut down.
SendsOnLiveSocket == caller.pc \in {"send", "recv"} => write # 0 /\ ~links[write].shut

\* A get that completes returns the value the server holds.
GetReturnsStored ==
    caller.pc = "recv" /\ caller'.pc = "idle" /\ caller.kind = "Get"
        => Last(results').ok /\ Last(results').val = Get(records, caller.key)

\* C19: after reset_connection() returns the client holds no socket; the next
\* operation dials a new connection before it sends, completes, and a get
\* returns the value stored on the server.
C19_RedialAfterReset ==
    /\ []NoSocketAfterReset
    /\ []SendsOnLiveSocket
    /\ [][GetReturnsStored]_vars
    /\ (HasReset /\ caller.pc = "connect") ~> (caller.pc = "idle")

\* No socket after a reset, requests only on a live socket, and a completed
\* get returning the stored value: these hold on every behaviour.
RedialSafety == []NoSocketAfterReset /\ []SendsOnLiveSocket /\ [][GetReturnsStored]_vars


IsNotify(p) == p.kind = "Notify"

IsWait(r) == r.kind = "Wait"

\* The values of a sequence of packets or outcomes.
ValsOf(q) == [i \in 1..Len(q) |-> q[i].val]

\* The values of the notifications the server has sent to the client, in order.
Pushed == IF links = <<>> THEN <<>> ELSE ValsOf(SelectSeq(links[1].down, IsNotify))

\* The values of the notifications the background task has received and handled.
Received ==
    IF links = <<>> THEN <<>>
    ELSE ValsOf(SelectSeq(SubSeq(links[1].down, 1,
                                 links[1].read - (IF links[1].backend = "handle" THEN 1 ELSE 0)),
                          IsNotify))

\* The values the caller's wait_on_update() calls have returned, in order.
Waited == ValsOf(SelectSeq(results, IsWait))

\* get() returns the value of the latest Notify received.
LiveHoldsLatest == caller.live # 0 => lives[caller.live].value = Current(Received)

\* C20: get() on a LiveValue returns the value of the latest Notify received
\* for its key, and successive wait_on_update() calls return the
\* notifications one per call in the order the server sent them.
C20_WaitsReturnNotifications == LiveHoldsLatest /\ IsPrefix(Waited, Pushed)


\* C21: new_page() right after free(p) returns a page at p's address whose
\* free byte is 0, whose body is all zero and whose links are none; the free
\* list shrinks by one and the file does not grow.
C21_FreedPageIsRecycled ==
    [][(flast.op = "free" /\ flast'.op = "new_page") =>
          LET p == handles[flast.h]
              q == handles'[flast'.h] IN
          /\ q.start = p.start
          /\ file'.pages[Slot(q.start)] = ZeroPage
          /\ ~q.free /\ q.previous = 0 /\ q.next = 0 /\ ~has_next(q)
          /\ Len(paged'.free_list) = Len(paged.free_list) - 1
          /\ file'.len = file.len
          /\ Len(file'.pages) = Len(file.pages)]_vars

\* A page that held data was freed, after another one, and new_page() then
\* returned it while the other one stays on the free list.
C21_Witness ==
    /\ flast.op = "new_page" /\ flast.after = "free"
    /\ paged.free_list # <<>>
    /\ handles[flast.h].start \notin {paged.free_list[i] : i \in 1..Len(paged.free_list)}
    /\ \E h \in 1..Len(handles) : handles[h].free /\ handles[h].start = handles[flast.h].start


\* C22: acquire(page_no) fails with PageOutOfBounds when page_no is not less
\* than the number of pages of the file, with PageFreedError when byte 0 of
\* the page is 1, and returns the page otherwise; it changes neither the file
\* nor the free list.
C22_AcquireChecksPage ==
    [][(flast'.op = "acquire" /\ flast'.n = flast.n + 1) =>
          LET no == flast'.arg IN
          /\ file' = file
          /\ paged' = paged
          /\ IF no >= Len(file.pages)
             THEN ~flast'.ok /\ flast'.err = "PageOutOfBounds" /\ handles' = handles
             ELSE IF file.pages[no + 1].free = 1
                  THEN ~flast'.ok /\ flast'.err = "PageFreedError" /\ handles' = handles
                  ELSE /\ flast'.ok
                       /\ handles'[flast'.h].start = PageAddress(no)
                       /\ ~handles'[flast'.h].free]_vars

\* acquire was refused for a freed page of a file in which another page can
\* be acquired.
C22_Witness ==
    /\ flast.op = "acquire" /\ flast.err = "PageFreedError"
    /\ \E i \in 1..Len(file.pages) : file.pages[i].free = 0


\* The addresses on the free list of the PagedFile.
FreeListed == {paged.free_list[i] : i \in 1..Len(paged.free_list)}

\* C23: after any sequence of new_page and free, opening the file again
\* rebuilds a free list that holds exactly the pages freed and not reused
\* since, each once, and the page count is the number of pages appended.
C23_ReopenRebuildsFreeList ==
    flast.op = "open" =>
        /\ FreeListed = {PageAddress(i - 1) : i \in fghost.freed}
        /\ Len(paged.free_list) = Cardinality(fghost.freed)
        /\ pages(paged) = fghost.appended

\* The file was opened again after a page was freed and handed out again,
\* and another page was freed and is still free.
C23_Witness ==
    /\ flast.op = "open" /\ flast.n > 1
    /\ fghost.appended = 2
    /\ Cardinality(fghost.freed) = 1
    /\ \E h \in 1..Len(handles) : handles[h].free /\ Slot(handles[h].start) \notin fghost.freed


\* C24: open refuses a non-empty file whose byte 0 is not the magic byte and
\* leaves it unchanged; open on an empty file writes the header, whose byte 0
\* is the magic byte.
C24_OpenChecksMagic ==
    [][(flast'.op = "open" /\ flast'.n = flast.n + 1) =>
          /\ (file.len # 0 /\ file.b0 # MAGIC_BYTE) => (~flast'.ok /\ file' = file)
          /\ file.len = 0 => (file'.len = RESERVED_HEADER_SIZE /\ file'.b0 = MAGIC_BYTE)]_vars


\* This step is get_next on the Page value h.
GetNextOn(h) == flast'.op = "get_next" /\ flast'.n = flast.n + 1 /\ flast'.arg = h

\* The step allocated exactly one page, o, and linked it behind the page of h
\* in both directions, in the Page values and in the file, where both links
\* read back with the same page numbers; the previous link of h is unchanged.
LinksNewPage(h) ==
    LET o == handles'[flast'.h]
        me == handles[h].start IN
    /\ flast'.ok
    /\ Len(handles') = Len(handles) + 1
    /\ \/ Len(file'.pages) = Len(file.pages) + 1 /\ paged'.free_list = paged.free_list
       \/ Len(file'.pages) = Len(file.pages)
             /\ Len(paged'.free_list) = Len(paged.free_list) - 1
    /\ o.start # me
    /\ handles'[h].next = o.start
    /\ o.previous = me
    /\ handles'[h].previous = handles[h].previous
    /\ page_number(load_page(file', me).next) = page_number(o.start)
    /\ page_number(load_page(file', o.start).previous) = page_number(me)

\* The step allocated nothing and, unless it failed, returned the successor
\* the page of h was given.
ReturnsSuccessor(h) ==
    /\ file' = file
    /\ paged' = paged
    /\ flast'.ok =>
          handles'[flast'.h].start = PageAddress(file.pages[Slot(handles[h].start)].next)
    /\ flast'.ok => handles'[flast'.h].start # handles[h].start

\* C25: get_next on a page without a successor allocates exactly one new
\* page and links it in both directions; a later get_next on the page
\* returns that successor without allocating; the page's previous link is
\* unchanged, and both links read back from the file.
C25_GetNextChains ==
    [][\A h \in 1..Len(handles) :
          GetNextOn(h) =>
              IF Slot(handles[h].start) \in fghost.linked
              THEN ReturnsSuccessor(h)
              ELSE LinksNewPage(h)]_vars

\* The same for the Page values whose next field is none when the page has
\* no successor and the successor's address otherwise (as new_page and
\* get_next leave it, and as load_page builds it only for a page that has a
\* successor), as long as no page was freed: for these it holds.
ChainsFromFreshPage ==
    [][\A h \in 1..Len(handles) :
          (/\ GetNextOn(h)
           /\ \A g \in 1..Len(handles) : ~handles[g].free
           /\ handles[h].next =
                 IF Slot(handles[h].start) \in fghost.linked
                 THEN PageAddress(file.pages[Slot(handles[h].start)].next) ELSE 0)
              => IF Slot(handles[h].start) \in fghost.linked
                 THEN ReturnsSuccessor(h)
                 ELSE LinksNewPage(h)]_vars


\* The step allocated a page: a new one at the end of the file, or one taken
\* from the free list.
Allocates ==
    \/ Len(file'.pages) = Len(file.pages) + 1
    \/ Len(paged'.free_list) = Len(paged.free_list) - 1

\* C26: a stored next (or previous) field of 0 means no link: the Page loaded
\* from such a page has no successor, get_next on it allocates a new page,
\* and the field of a page that get_next linked, be it to page 0, is not 0.
C26_ZeroFieldIsNoLink ==
    [][/\ (flast'.op = "acquire" /\ flast'.n = flast.n + 1 /\ flast'.ok) =>
              LET q == handles'[flast'.h] IN
              /\ file.pages[Slot(q.start)].next = 0 => ~has_next(q)
              /\ file.pages[Slot(q.start)].prev = 0 => q.previous = 0
       /\ \A h \in 1..Len(handles) :
              (GetNextOn(h) /\ file.pages[Slot(handles[h].start)].next = 0) => Allocates
       /\ \A i \in fghost'.linked : file'.pages[i].next # 0]_vars

\* C27: for every packet (every payload kind, every PacketId, String and
\* Integer values, absent and present optional values, both bool values),
\* reading the bytes that write_packet produced returns a packet equal to the
\* one written and leaves exactly the bytes that were written after it.
C27_DecodeInvertsEncode ==
    decoded.read =>
        /\ decoded.result.ok
        /\ decoded.result.v = packet
        /\ decoded.result.rest = sent.then
        /\ stream = sent.then

\* A Notify with a two-byte code point in its key, a negative Integer of
\* several varint bytes and more = true was written, with traffic after it,
\* and has been read.
C27_Witness ==
    /\ decoded.read
    /\ packet.payload.kind = "Notify"
    /\ \E i \in 1..Len(packet.payload.key) : packet.payload.key[i] = 233
    /\ packet.payload.value = Some(IntegerValue(-8192))
    /\ packet.payload.more
    /\ packet.id = <<<<1, 258>>, <<U16 - 1, U16 - 1>>>>
    /\ sent.then = <<128, 255>>

\* C28: on the leaf page, after any sequence of write_record and
\* simple_delete, used_space + free_space + fragmented + header_size is the
\* capacity of the page.
C28_SpaceAddsUp ==
    get_used_space(leaf) + get_free_space(leaf) + get_fragmented(leaf) + header_size
        = capacity

\* The record of the last write_record, and what the claim calls its need.
Written == Produced[llast'.arg]
RecordNeed == total_serialized_size(Written)
WriteStep == llast'.op = "write_record" /\ llast'.n = llast.n + 1

\* C29: the fit check of write_record rejects the record with LeafPageFull
\* exactly when free_space < record_need + 2, the 2 for the one new cell
\* offset; a record larger than the page is rejected with LeafPageFull.
C29_FitCheckRejectsExactly ==
    [][WriteStep =>
        /\ (llast'.res = "LeafPageFull" /\ llast'.stage = "fit")
                <=> get_free_space(leaf) < RecordNeed + 2
        /\ Len(Written.data) > PAGE_SIZE => llast'.res = "LeafPageFull"]_vars

\* What read_record returns for a record that is there, and for none.
ReadsAs(value) == [res |-> "Ok", found |-> TRUE, value |-> value]
ReadsNone == [res |-> "Ok", found |-> FALSE]

\* C30: a successful write_record appends the record at cell cell_count and
\* increments cell_count by one: after n successful writes and no delete,
\* cell_count is n, read_record(i) returns the i-th written record for every
\* i < n and none for i >= n, and later writes leave earlier records as
\* they were.
C30_WriteAppends ==
    ~lghost.deleted =>
        LET n == Len(lghost.written) IN
        /\ get_cell_count(leaf) = n
        /\ \A i \in 1..n : read_record(leaf, i - 1) = ReadsAs(Records[lghost.written[i]])
        /\ \A i \in n..(n + 2) : read_record(leaf, i) = ReadsNone

\* Three records were written, an Integer of one byte, one of five bytes and
\* a String, nothing was deleted, and read_record(2) has returned the String.
C30_Witness ==
    /\ lghost.written = <<2, 3, 4>>
    /\ ~lghost.deleted
    /\ llast.op = "read_record" /\ llast.arg = 2
    /\ llast.out = Some(Records[4])

\* ---------------------------------------------------------------------
\* The leaf page with a free chain: pages that hold some records already,
\* and then deletes and writes of small records.
\* ---------------------------------------------------------------------
MaxChainOps == 3

\* A String that leaves the lead pointer little room after a 16-byte record.
NearFull == capacity - header_size - 16 - 35

ChainRecords ==
    << Some(IntegerValue(332)),
       Some(IntegerValue(339939393)),
       Some(StringValue(<<104, 101, 108, 108, 111, 32, 97, 110, 100, 114, 101, 119>>)),
       Some(Repeated(20)),
       Some(Repeated(NearFull)) >>

ChainProduced == [r \in 1..Len(ChainRecords) |-> produce(ChainRecords[r])]

\* What was done to the pages before the start, in order: r > 0 is
\* write_record of ChainRecords[r], and d <= 0 is simple_delete(-d).
Prepared == {<<>>, <<2, 1, 2>>, <<1, 2, 1, 2, 1>>, <<3, 5>>, <<1, 2, 1, 2, 1, 0, -1>>}

\* The page after these calls on a fresh page.
RECURSIVE Filled(_)
Filled(written) ==
    IF written = <<>> THEN {}
    ELSE IF written[Len(written)] > 0
    THEN write_serialized_record(Filled(SubSeq(written, 1, Len(written) - 1)),
                                 ChainProduced[written[Len(written)]]).mem
    ELSE simple_delete(Filled(SubSeq(written, 1, Len(written) - 1)),
                       -written[Len(written)]).mem

\* read_free_chain: the blocks from the head pointer along their next
\* pointers, as far as MaxChainOps + 2 blocks.
RECURSIVE ChainFrom(_, _, _)
ChainFrom(m, pointer, left) ==
    IF pointer = 0 \/ left = 0 THEN <<>>
    ELSE <<FreeBlockRead(m, pointer)>>
            \o ChainFrom(m, FreeBlockRead(m, pointer).next, left - 1)

read_free_chain(m) == ChainFrom(m, get_free_block_ptr(m), MaxChainOps + 2)

ChainRunning == llast.n < MaxChainOps /\ llast.res # "abort"

\* leaf.write_record(ChainRecords[r]), r one of the small records.
ChainWrite(r) ==
    /\ ChainRunning
    /\ \E w \in {write_serialized_record(leaf, ChainProduced[r])} :
        /\ leaf' = w.mem
        /\ llast' = LeafCall("write_record", r, w.res, w.stage, None)
        /\ lghost' = IF w.res = "Ok"
                     THEN [lghost EXCEPT !.written = Append(@, r)]
                     ELSE lghost
    /\ UNCHANGED notLeaf

\* leaf.simple_delete(record) of a record in the directory.
ChainDelete(record) ==
    /\ ChainRunning
    /\ \E d \in {simple_delete(leaf, record)} :
        /\ leaf' = d.mem
        /\ llast' = LeafCall("simple_delete", record, d.res, "done", None)
        /\ lghost' = IF d.res = "NoRecordFound" THEN lghost
                     ELSE [lghost EXCEPT !.deleted = TRUE]
    /\ UNCHANGED notLeaf

InitChain ==
    /\ Start("Database") /\ ClientNew(<<0, 1>>) /\ PagedNew(EmptyFile) /\ CodecNew(ZeroGet)
    /\ \E written \in Prepared :
        /\ leaf = Filled(written)
        /\ lghost = [written |-> written, deleted |-> FALSE]
    /\ llast = [n |-> 0, op |-> "none", arg |-> 0, res |-> "Ok", stage |-> "done",
                out |-> None]

NextChain ==
    \/ \E r \in 1..(Len(ChainRecords) - 1) : ChainWrite(r)
    \/ \E record \in 0..(get_cell_count(leaf) - 1) : ChainDelete(record)

SpecChain == InitChain /\ [][NextChain]_vars

\* A step that is a call of simple_delete.
DeleteStep == llast'.op = "simple_delete" /\ llast'.n = llast.n + 1

\* C31: simple_delete(i) on a record that exists returns Ok and removes
\* exactly record i: the cell count goes down by one, the records after i are
\* read one index lower with the contents they had, the records before i keep
\* index and contents; on a slot whose cell offset is 0 it returns
\* NoRecordFound and leaves the page as it was.  A slot past the cell count
\* that holds other bytes is neither case.
C31_DeleteRemovesExactly ==
    [][DeleteStep =>
        IF get_offset(leaf, llast'.arg) = 0
        THEN llast'.res = "NoRecordFound" /\ leaf' = leaf
        ELSE llast'.arg < get_cell_count(leaf) =>
             /\ llast'.res = "Ok"
             /\ get_cell_count(leaf') = get_cell_count(leaf) - 1
             /\ \A j \in 0..(get_cell_count(leaf) - 1) :
                    /\ j < llast'.arg => read_record(leaf', j) = read_record(leaf, j)
                    /\ j > llast'.arg => read_record(leaf', j - 1) = read_record(leaf, j)]_vars

\* A block beside the freed region, and the block that covers both.
Touches(block, start, size) ==
    /\ block.offset # 0
    /\ (start + size = block.offset \/ block.offset + block.size = start)

Covering(block, start, size) ==
    [position |-> block.position, next |-> block.next,
     offset |-> IF start + size = block.offset THEN start ELSE block.offset,
     size |-> block.size + size]

Coalesced(before, after, start, size) ==
    /\ before = <<>> =>
           /\ Len(after) = 1
           /\ after[1].offset = start /\ after[1].size = size /\ after[1].next = 0
    /\ \A k \in 1..Len(before) :
           (Touches(before[k], start, size)
               /\ \A j \in 1..(k - 1) : ~Touches(before[j], start, size))
           => /\ Len(after) = Len(before)
              /\ after[k] = Covering(before[k], start, size)

\* C32: when simple_delete frees a region immediately left or right of the
\* region of an active free block, that block is widened to cover both and the
\* chain gets no new block; on an empty chain the freed region becomes the one
\* block.  Deleting contiguous records one at a time therefore leaves a single
\* block whose size is the sum of their total serialized sizes.
C32_AdjacentFreeBlockWidened ==
    [][(DeleteStep /\ llast'.arg < get_cell_count(leaf)
            /\ get_offset(leaf, llast'.arg) # 0)
        => /\ (read_free_chain(leaf) = <<>>
                 \/ \E k \in 1..Len(read_free_chain(leaf)) :
                        Touches(read_free_chain(leaf)[k], get_offset(leaf, llast'.arg),
                                get_total_record_size(leaf, llast'.arg)))
               => llast'.res = "Ok"
           /\ llast'.res = "Ok" =>
                  Coalesced(read_free_chain(leaf), read_free_chain(leaf'),
                            get_offset(leaf, llast'.arg),
                            get_total_record_size(leaf, llast'.arg))]_vars

\* A step that is a call of write_record that returned Ok, and the block the
\* search for room looks at first.
WriteOkStep ==
    llast'.op = "write_record" /\ llast'.n = llast.n + 1 /\ llast'.res = "Ok"

HeadBlock(m) == FreeBlockRead(m, get_free_block_ptr(m))

Serves(m, s) ==
    get_free_block_ptr(m) # 0 /\ HeadBlock(m).offset # 0 /\ HeadBlock(m).size >= s

AllocatedFrom(m, after, block, s, record) ==
    /\ get_offset(after, get_cell_count(m)) = block.offset
    /\ read_record(after, get_cell_count(m)) = ReadsAs(ChainRecords[record])
    /\ get_lead_offset(after) = get_lead_offset(m)
    /\ IF block.size - s > FRAGMENTATION_SIZE
       THEN /\ FreeBlockRead(after, block.position).offset = block.offset + s
            /\ FreeBlockRead(after, block.position).size = block.size - s
            /\ get_fragmented(after) = get_fragmented(m)
       ELSE /\ FreeBlockRead(after, block.position).offset = 0
            /\ get_fragmented(after) = get_fragmented(m) + (block.size - s)

\* C33: a record of size s allocated from an active free block (o, B) with
\* B >= s is written at o and lead_offset stays; the block becomes
\* (o + s, B - s) when B - s > 4, and otherwise its offset is nulled and B - s
\* is added to fragmented (nothing when it is 0).
C33_AllocateFromFreeBlock ==
    [][(WriteOkStep /\ Serves(leaf, total_serialized_size(ChainProduced[llast'.arg])))
        => AllocatedFrom(leaf, leaf', HeadBlock(leaf),
                         total_serialized_size(ChainProduced[llast'.arg]),
                         llast'.arg)]_vars

\* A 16-byte record written and deleted, then a 5-byte record written into
\* its place: the block describes the 11 bytes after it.
C33_Witness ==
    /\ lghost.written = <<3, 1>>
    /\ llast.op = "write_record" /\ llast.res = "Ok" /\ llast.n = 3
    /\ Len(read_free_chain(leaf)) = 1
    /\ read_free_chain(leaf)[1].size = 11
    /\ read_free_chain(leaf)[1].offset = get_offset(leaf, 0) + 5
    /\ get_lead_offset(leaf) = 22

\* The sizes the search for room is asked for: the records and a descriptor.
SearchSizes ==
    {total_serialized_size(ChainProduced[r]) : r \in 1..(Len(ChainRecords) - 1)}
        \cup {FreeBlockSize}

\* The chain ends within the blocks read and no descriptor is met twice.
Acyclic(chain) ==
    /\ chain # <<>> => chain[Len(chain)].next = 0
    /\ \A j, k \in 1..Len(chain) : chain[j].position = chain[k].position => j = k

Qualifies(block, size) == block.size >= size /\ block.offset # 0

FirstQualifying(chain, size) ==
    IF \E k \in 1..Len(chain) : Qualifies(chain[k], size)
    THEN Allocation(
             chain[CHOOSE k \in 1..Len(chain) :
                       /\ Qualifies(chain[k], size)
                       /\ \A j \in 1..(k - 1) : ~Qualifies(chain[j], size)].offset,
             Some(chain[CHOOSE k \in 1..Len(chain) :
                            /\ Qualifies(chain[k], size)
                            /\ \A j \in 1..(k - 1) : ~Qualifies(chain[j], size)]),
             size, FALSE)
    ELSE NoAllocation

\* C34: on a page whose free chain is a finite list without a cycle the
\* search for room returns: it gives the first block in chain order with
\* size >= the size asked for and offset # 0, and none when no block
\* qualifies (the caller then turns to the lead pointer).
C34_SearchTerminates ==
    Acyclic(read_free_chain(leaf)) =>
        \A size \in SearchSizes :
            find_free_slot(leaf, size) = FirstQualifying(read_free_chain(leaf), size)

\* The byte regions of a page, each [lo, hi): the header with the cell
\* offsets, the records in the directory, the descriptors of the chain and
\* what its active blocks describe.
Regions(m) ==
    {[kind |-> "directory", id |-> 0, lo |-> 0,
      hi |-> header_size + 2 * get_cell_count(m)]}
    \cup {[kind |-> "record", id |-> i, lo |-> get_offset(m, i),
           hi |-> get_offset(m, i) + get_total_record_size(m, i)] :
             i \in {j \in 0..(get_cell_count(m) - 1) : get_offset(m, j) # 0}}
    \cup {[kind |-> "descriptor", id |-> k, lo |-> read_free_chain(m)[k].position,
           hi |-> read_free_chain(m)[k].position + FreeBlockSize] :
             k \in 1..Len(read_free_chain(m))}
    \cup {[kind |-> "free", id |-> k, lo |-> read_free_chain(m)[k].offset,
           hi |-> read_free_chain(m)[k].offset + read_free_chain(m)[k].size] :
             k \in {j \in 1..Len(read_free_chain(m)) : read_free_chain(m)[j].offset # 0}}

Apart(regions) ==
    /\ \A a \in regions : 0 <= a.lo /\ a.lo <= a.hi /\ a.hi <= capacity
    /\ \A a, b \in regions : a # b => a.hi <= b.lo \/ b.hi <= a.lo

\* C37: after any writes and deletes that returned, the header with the cell
\* offsets, the live records, the free-block descriptors and the regions the
\* active free blocks describe are pairwise disjoint and inside the page body.
C37_RegionsDisjoint == llast.res # "abort" => Apart(Regions(leaf))

\* What a caller can read of a page: the counts, the cell offsets, the
\* chain and the records.
Readable(m) ==
    [cell_count |-> get_cell_count(m), used_space |-> get_used_space(m),
     lead_offset |-> get_lead_offset(m),
     offsets |-> [i \in 0..get_cell_count(m) |-> get_offset(m, i)],
     chain |-> read_free_chain(m),
     records |-> [i \in 0..get_cell_count(m) |-> read_record(m, i)]]

\* C38: a write_record that returns LeafPageFull, at the fit check or because
\* no room is found, leaves the page as it was: cell_count, used_space,
\* lead_offset, the cell offsets, the free chain and the records.
C38_FailedWriteLeavesPage ==
    [][(llast'.op = "write_record" /\ llast'.n = llast.n + 1
            /\ llast'.res = "LeafPageFull")
        => Readable(leaf') = Readable(leaf)]_vars

\* What the returns of wait() in one step of a subscriber task took: the
\* observations added to seen, as deposits.
Returned(before, after) ==
    [i \in 1..(Len(after.seen) - Len(before.seen)) |->
        Entry(after.seen[Len(before.seen) + i].v, after.seen[Len(before.seen) + i].m)]

\* An Eager return: the value held, or null after a wake that deposited null
\* since the previous return.
EagerTaken(before, after, i) ==
    IF after.seen[Len(before.seen) + i].v = NULL
    THEN after.seen[Len(before.seen) + i].fresh
            /\ after.seen[Len(before.seen) + i].last = NULL
    ELSE i = 1 /\ before.hold = <<Returned(before, after)[1]>>

\* C35: wait() returns only what the producer deposited, each deposit at most
\* once: the returns of an Ordered watcher are the deposits held, from the
\* front and in order; an Eager watcher returns the value held once, and
\* either mode returns null only when null was deposited (a delete, a null
\* kickback or a kill).
C35_WaitReturnsDeposits ==
    [][\A w \in 1..Len(watchers) :
          IF watchers[w].mode = "Ordered"
          THEN IsPrefix(Returned(watchers[w], watchers'[w]), watchers[w].hold)
          ELSE \A i \in 1..Len(Returned(watchers[w], watchers'[w])) :
                   EagerTaken(watchers[w], watchers'[w], i)]_vars

\* The server with its executor: a task that can run is run, and a store
\* mutation under way runs to its response.  Requests may stop coming.
ServerFairness ==
    /\ \A w \in 1..MaxWatch : WF_vars(w <= Len(watchers) /\ SubscriberRun(w))
    /\ WF_vars(OpWrite \/ StartNotify \/ NotifySignal \/ Respond)
    /\ \A w \in 1..MaxWatch : WF_vars(NotifyDeposit(w))

SpecServed == Init /\ [][Next]_vars /\ ServerFairness

\* A subscriber task whose producer is not in the index, and a task that
\* has ended.
Dropped(w) == w <= Len(watchers) /\ ~InIndex(w) /\ op = Idle

Exited(w) == w <= Len(watchers) /\ watchers[w].pc = "done"

\* C36: a subscriber task whose subscription is no longer in the index, after
\* a Release or after a second Watch of the key by the same client replaced
\* it, is eventually woken and exits.
C36_DroppedTaskExits == \A w \in 1..MaxWatch : Dropped(w) ~> Exited(w)

\* The pages handed out and not freed since, by their place in the file.
Allocated == {i \in 1..fghost.appended : i \notin fghost.freed}

\* C39: after any new_page and free calls, free called twice on one Page
\* value included, the free list holds no page address twice and new_page
\* does not return the address of a page that is allocated.
C39_NoDoubleAllocation ==
    [][/\ Len(paged'.free_list) = Cardinality({paged'.free_list[i] :
                                                  i \in 1..Len(paged'.free_list)})
       /\ (flast'.op = "new_page" /\ flast'.n = flast.n + 1)
              => Slot(handles'[flast'.h].start) \notin Allocated]_vars

\* C40: connect() ends once the connection is established: whatever the
\* order in which the spawned read task signals its start and the caller
\* begins to wait for that signal, the caller is released, stores the write
\* half and goes on to its operation.
C40_ConnectTerminates ==
    (caller.pc = "dialed") ~> (caller.pc = "count" /\ write # 0)

====
